---- MODULE Spec2Model ----
(***************************************************************************)
(* State-machine model of GpuShaderInstrumentor                            *)
(* (layers/gpu/instrumentation/gpuav_shader_instrumentor.cpp): device      *)
(* initialisation, pipeline-layout and shader-object layout adaptation,    *)
(* shader instrumentation with the SpirvCache, the instrumented-shader     *)
(* registry and the destroy sweeps.                                        *)
(***************************************************************************)
EXTENDS Integers, Sequences, FiniteSets, TLC

(* ------------------------------ bounds -------------------------------- *)
\* the device's maxBoundDescriptorSets is 1 or MaxBoundSets
MaxBoundSets == 2
\* a caller's setLayoutCount ranges over 0..MaxSetLayoutCount
MaxSetLayoutCount == 2
\* create-infos per vkCreateShadersEXT call
MaxBatch == 2
\* cap of unique_shader_module_id_ (a 32-bit counter in the program)
MaxUniqueId == 3
\* uint32_t arithmetic wraps modulo UIntModulus (2^32 in the program)
UIntModulus == 65536
\* fingerprints and word vectors of the stand-alone SpirvCache specification
MaxHash == 2

(* ------------------------- program constants -------------------------- *)
kMaxAdjustedBoundDescriptorSet == 33
MagicNumber == 119734787
VK_NULL_HANDLE == "VK_NULL_HANDLE"
kPipelineStageInfoHandle == "kPipelineStageInfoHandle"

None == "none"

Min(a, b) == IF a < b THEN a ELSE b

\* unsigned subtraction
USub(a, b) == (a - b + UIntModulus) % UIntModulus

(* ------------------------------ handles ------------------------------- *)
\* set layouts the application owns; "C" has a bindless binding
AppSetLayouts == {"A", "B", "C"}
IsBindless(set_layout) == set_layout = "C"
\* handles the driver returns for the three internal objects
InstrumentationDescLayoutHandle == "instrumentation_desc_layout"
DummyDescLayoutHandle == "dummy_desc_layout"
InstrumentationPipelineLayoutHandle == "instrumentation_pipeline_layout"
InternalHandles ==
    {InstrumentationDescLayoutHandle, DummyDescLayoutHandle, InstrumentationPipelineLayoutHandle}
ShaderObjectPool == <<"S1", "S2">>
PipelinePool == <<"P1", "P2">>
ShaderObjectHandles == {ShaderObjectPool[i] : i \in 1..Len(ShaderObjectPool)}
PipelineHandles == {PipelinePool[i] : i \in 1..Len(PipelinePool)}
\* application shader modules and the SPIR-V each was created from
ShaderModuleHandles == {"M1", "M2"}

(* ------------------------------ SPIR-V -------------------------------- *)
\* a module is <<magic, body>>; body 0 holds nothing a pass instruments
W1 == <<MagicNumber, 1>>
W2 == <<MagicNumber, 2>>
WPlain == <<MagicNumber, 0>>
WNotSpirv == <<0, 1>>
ModuleWords(m) == IF m = "M1" THEN W1 ELSE WPlain

RECURSIVE SumWords(_)
SumWords(w) == IF w = <<>> THEN 0 ELSE w[1] + SumWords(Tail(w))
\* hash_util::ShaderHash: a 32-bit fingerprint of the word stream
ShaderHash(w) == (SumWords(w) + Len(w)) % 2147483647

VARIABLES
    gpuav_settings,                         \* read-only settings
    phase,                                  \* "constructed", "live", "destroyed"
    aborted_,
    dispatch_registered,                    \* per-device dispatch registration
    instrumentation_desc_set_bind_index_,
    instrumentation_desc_layout_,
    dummy_desc_layout_,
    instrumentation_pipeline_layout_,
    selected_instrumented_shaders,
    instrumented_shaders_cache_,            \* SpirvCache::spirv_shaders_
    instrumented_shaders_map_,              \* the registry
    unique_shader_module_id_,
    shader_objects,                         \* live VkShaderEXT handles
    pipelines,                              \* state tracker: live vvl::Pipeline
    call,                                   \* the intercepted call in flight
    cache_log,                              \* history: the Add calls a SpirvCache under test received
    driver_objects,                         \* history: create and destroy calls per internal object
    driver_shader_modules,                  \* driver: live modules DispatchCreateShaderModule made
    driver_library_pipelines,               \* driver: live pipelines the link of libraries made
    deferred_operation_post_check,          \* layer data: per deferred operation, its post checks
    global_settings,                        \* read-only: fine_grained_locking
    guards,                                 \* per thread: its guard on validation_object_mutex
    hooks                                   \* per thread: the hook it runs and where it is in it

vars == <<gpuav_settings, phase, aborted_, dispatch_registered,
          instrumentation_desc_set_bind_index_, instrumentation_desc_layout_,
          dummy_desc_layout_, instrumentation_pipeline_layout_,
          selected_instrumented_shaders, instrumented_shaders_cache_,
          instrumented_shaders_map_, unique_shader_module_id_,
          shader_objects, pipelines, call, cache_log, driver_objects,
          driver_shader_modules, driver_library_pipelines,
          deferred_operation_post_check, global_settings, guards, hooks>>

lockVars == <<global_settings, guards, hooks>>

coreVars == <<aborted_, dispatch_registered,
              instrumentation_desc_set_bind_index_, instrumentation_desc_layout_,
              dummy_desc_layout_, instrumentation_pipeline_layout_>>

IdleCall == [op |-> "idle", stage |-> "idle"]

\* the threads of the application that call into the layer
MaxThreads == 3
Threads == 1..MaxThreads
NoGuard == [kind |-> "none", owns |-> FALSE, blocked |-> FALSE]
\* a thread that is in no hook
IdleHook == [hook |-> "none", pc |-> "idle"]

\* VkDeferredOperationKHR handles; what pop() finds for one without post checks
DeferredOperations == {"D1", "D2"}
NotFound == [first |-> FALSE, second |-> <<>>]

(* ------------------------------ settings ------------------------------ *)
IsSpirvModified(settings) ==
    settings.shader_instrumentation # {} \/ settings.debug_printf_enabled

SettingsDomain ==
    [shader_instrumentation : {{}, {"bindless_descriptor"}},
     debug_printf_enabled : {FALSE},
     debug_printf_only : {FALSE},
     debug_validate_instrumented_shaders : {FALSE},
     debug_dump_instrumented_shaders : {FALSE},
     cache_instrumented_shaders : BOOLEAN,
     select_instrumented_shaders : {FALSE}]

(* ----------------------------- SpirvCache ----------------------------- *)
\* variant: insert_or_assign in place of emplace
SpirvCacheAdd_Assign(spirv_shaders_, hash, spirv) ==
    {e \in spirv_shaders_ : e.hash # hash} \cup {[hash |-> hash, spirv |-> spirv]}

\* std::unordered_map::emplace keeps an existing entry
SpirvCacheAdd(spirv_shaders_, hash, spirv) ==
    IF \E e \in spirv_shaders_ : e.hash = hash
    THEN spirv_shaders_
    ELSE spirv_shaders_ \cup {[hash |-> hash, spirv |-> spirv]}

\* variant: the lookup never finds an entry
SpirvCacheGet_Miss(spirv_shaders_, spirv_hash) == [found |-> FALSE, spirv |-> <<>>]

\* found is FALSE for nullptr, else spirv is the stored vector
SpirvCacheGet(spirv_shaders_, spirv_hash) ==
    IF \E e \in spirv_shaders_ : e.hash = spirv_hash
    THEN [found |-> TRUE, spirv |-> (CHOOSE e \in spirv_shaders_ : e.hash = spirv_hash).spirv]
    ELSE [found |-> FALSE, spirv |-> <<>>]

(* ------------------------- InstrumentShader --------------------------- *)
\* results of the collaborators one intercepted call meets: spirv-val,
\* spirv-opt and the driver's vkCreateShaderModule
EnvOk == [validator_ok |-> TRUE, dce_ok |-> TRUE, create_shader_module_ok |-> TRUE]
ShaderObjectEnvs == {EnvOk, [EnvOk EXCEPT !.dce_ok = FALSE]}
PipelineEnvs == {EnvOk, [EnvOk EXCEPT !.dce_ok = FALSE],
                 [EnvOk EXCEPT !.create_shader_module_ok = FALSE]}

\* spirv::Module::RunPass...: TRUE iff the pass changed the module
RunPass(pass, input_spirv) ==
    CASE pass = "bindless_descriptor" -> input_spirv[2] \in {1, 2}
      [] pass = "non_bindless_oob_buffer" -> input_spirv[2] = 3
      [] pass = "ray_query" -> input_spirv[2] = 4
      [] pass = "debug_printf" -> input_spirv[2] = 5
      [] OTHER -> FALSE

\* spirv::Module::ToBinary: the instrumented code embeds the shader id, the
\* bindless mode and the descriptor set of the output buffer
ToBinary(input_spirv, unique_shader_id, has_bindless_descriptors, bind_index) ==
    input_spirv \o <<unique_shader_id, IF has_bindless_descriptors THEN 1 ELSE 0, bind_index>>

\* variant: DebugPrintf runs before the other passes
EnabledPasses_PrintfFirst(settings) ==
    (IF settings.debug_printf_enabled THEN <<"debug_printf">> ELSE <<>>)
    \o (IF "bindless_descriptor" \in settings.shader_instrumentation
        THEN <<"bindless_descriptor", "non_bindless_oob_buffer",
               "non_bindless_oob_texel_buffer">>
        ELSE <<>>)
    \o (IF "buffer_device_address" \in settings.shader_instrumentation
        THEN <<"buffer_device_address">> ELSE <<>>)
    \o (IF "ray_query" \in settings.shader_instrumentation THEN <<"ray_query">> ELSE <<>>)
    \o (IF "post_process_descriptor_index" \in settings.shader_instrumentation
        THEN <<"post_process_descriptor_index">> ELSE <<>>)
    \o <<"link_functions">>

\* the steps between the construction of the module and the test of
\* modified, in the order the code takes them
EnabledPasses(settings) ==
    (IF "bindless_descriptor" \in settings.shader_instrumentation
     THEN <<"bindless_descriptor", "non_bindless_oob_buffer",
            "non_bindless_oob_texel_buffer">>
     ELSE <<>>)
    \o (IF "buffer_device_address" \in settings.shader_instrumentation
        THEN <<"buffer_device_address">> ELSE <<>>)
    \o (IF "ray_query" \in settings.shader_instrumentation THEN <<"ray_query">> ELSE <<>>)
    \o (IF "post_process_descriptor_index" \in settings.shader_instrumentation
        THEN <<"post_process_descriptor_index">> ELSE <<>>)
    \o <<"link_functions">>
    \o (IF settings.debug_printf_enabled THEN <<"debug_printf">> ELSE <<>>)

\* variant: dead-code elimination runs first and whatever the settings say
ValidateAndOptimize_DceFirst(env, settings) ==
    IF ~env.dce_ok
    THEN [pass |-> FALSE, error |-> TRUE, steps |-> <<"dce">>]
    ELSE IF settings.debug_validate_instrumented_shaders
    THEN [pass |-> env.validator_ok, error |-> ~env.validator_ok,
          steps |-> <<"dce", "validate">>]
    ELSE [pass |-> TRUE, error |-> FALSE, steps |-> <<"dce">>]

\* what follows ToBinary: spirv-val if asked for, then spirv-opt's aggressive
\* dead-code elimination unless only DebugPrintf is on
ValidateAndOptimize(env, settings) ==
    LET validated == IF settings.debug_validate_instrumented_shaders
                     THEN <<"validate">> ELSE <<>>
    IN  IF settings.debug_validate_instrumented_shaders /\ ~env.validator_ok
        THEN [pass |-> FALSE, error |-> TRUE, steps |-> validated]
        ELSE IF settings.debug_printf_only
        THEN [pass |-> TRUE, error |-> FALSE, steps |-> validated]
        ELSE IF ~env.dce_ok
        THEN [pass |-> FALSE, error |-> TRUE, steps |-> validated \o <<"dce">>]
        ELSE [pass |-> TRUE, error |-> FALSE, steps |-> validated \o <<"dce">>]

\* InstrumentShader from the construction of the spirv::Module on
InstrumentModule(input_spirv, unique_shader_id, has_bindless_descriptors, env, settings, bind_index) ==
    LET passes == EnabledPasses(settings)
        modified == \E k \in 1..Len(passes) : RunPass(passes[k], input_spirv)
        binary == ToBinary(input_spirv, unique_shader_id, has_bindless_descriptors, bind_index)
        finish == ValidateAndOptimize(env, settings)
        dump == settings.debug_dump_instrumented_shaders
        before == IF dump THEN <<"before">> ELSE <<>>
        after == IF dump THEN <<"before", "after">> ELSE <<>>
        opt == IF dump /\ ~settings.debug_printf_only
               THEN <<"before", "after", "opt">> ELSE after
    IN  IF ~modified
        THEN [pass |-> FALSE, out |-> <<>>, error |-> FALSE, ran |-> TRUE, dumps |-> before,
              steps |-> passes]
        ELSE [pass |-> finish.pass, out |-> binary, error |-> finish.error, ran |-> TRUE,
              dumps |-> IF finish.pass THEN opt ELSE after,
              steps |-> passes \o <<"PostProcess", "ToBinary">> \o finish.steps]

\* variant: the first word is not compared with the magic number
InstrumentShader_NoMagicCheck(input_spirv, unique_shader_id, has_bindless_descriptors, env, settings, bind_index) ==
    InstrumentModule(input_spirv, unique_shader_id, has_bindless_descriptors, env, settings,
                     bind_index)

\* [pass, out, error, ran, dumps, steps]: the return value,
\* out_instrumented_spirv (passed in empty), whether InternalError was called,
\* whether the passes ran, the dump files written and the steps taken
InstrumentShader(input_spirv, unique_shader_id, has_bindless_descriptors, env, settings, bind_index) ==
    IF input_spirv[1] # MagicNumber
    THEN [pass |-> FALSE, out |-> <<>>, error |-> FALSE, ran |-> FALSE, dumps |-> <<>>,
          steps |-> <<>>]
    ELSE InstrumentModule(input_spirv, unique_shader_id, has_bindless_descriptors, env,
                          settings, bind_index)

(* --------------------------- device set-up ---------------------------- *)
Devices ==
    {d \in [fragmentStoresAndAtomics : BOOLEAN,
            vertexPipelineStoresAndAtomics : BOOLEAN,
            maxBoundDescriptorSets : {1, MaxBoundSets},
            failing_create : {0, 1, 2, 3}] :
        \* at most one thing is wrong with a device
        Cardinality({x \in {1, 2, 3} :
            \/ (x = 1 /\ ~d.fragmentStoresAndAtomics)
            \/ (x = 2 /\ ~d.vertexPipelineStoresAndAtomics)
            \/ (x = 3 /\ d.failing_create # 0)}) <= 1}

\* variant: the dispatch registration is kept
InternalError_KeepsRegistration ==
    /\ aborted_' = TRUE
    /\ dispatch_registered' = dispatch_registered

\* InternalError: mark aborted and release the dispatch registration
InternalError ==
    /\ aborted_' = TRUE
    /\ dispatch_registered' = FALSE

\* variant: the warning is dropped
InternalWarning_Silent(warnings) == warnings

\* InternalWarning: one more message in the log, no state of the core changes
InternalWarning(warnings) == warnings + 1

\* the driver's destroy calls of Cleanup: one per handle that is not null
CleanupObjects(desc_layout, dummy_layout, pipeline_layout, objects) ==
    [h \in InternalHandles |->
        IF h \in {desc_layout, dummy_layout, pipeline_layout}
        THEN [objects[h] EXCEPT !.destroyed = @ + 1]
        ELSE objects[h]]

\* Cleanup: each internal layout that is not null is destroyed and reset
Cleanup(desc_layout, dummy_layout, pipeline_layout, objects) ==
    /\ instrumentation_desc_layout_' = VK_NULL_HANDLE
    /\ dummy_desc_layout_' = VK_NULL_HANDLE
    /\ instrumentation_pipeline_layout_' = VK_NULL_HANDLE
    /\ driver_objects' = CleanupObjects(desc_layout, dummy_layout, pipeline_layout, objects)

\* the driver's create call of one internal object
Created(objects, h) == [objects EXCEPT ![h].created = @ + 1]

\* variant: vertexPipelineStoresAndAtomics is not looked at
FirstFailingCheck_NoVertexCheck(d, adjusted_max_desc_sets_limit) ==
    IF ~d.fragmentStoresAndAtomics THEN "fragmentStoresAndAtomics"
    ELSE IF adjusted_max_desc_sets_limit = 1 THEN "single descriptor set"
    ELSE None

\* the checks of the device in the order PostCreateDevice makes them
FirstFailingCheck(d, adjusted_max_desc_sets_limit) ==
    IF ~d.fragmentStoresAndAtomics THEN "fragmentStoresAndAtomics"
    ELSE IF ~d.vertexPipelineStoresAndAtomics THEN "vertexPipelineStoresAndAtomics"
    ELSE IF adjusted_max_desc_sets_limit = 1 THEN "single descriptor set"
    ELSE None

\* the message of the create call d.failing_create makes fail
CreateFailure(d) ==
    CASE d.failing_create = 1 -> "internal descriptor set"
      [] d.failing_create = 2 -> "internal dummy descriptor set"
      [] d.failing_create = 3 -> "internal pipeline layout"
      [] OTHER -> None

PostCreateDevice(d) ==
    /\ phase = "constructed"
    /\ call.stage = "idle"
    /\ phase' = "live"
    /\ LET adjusted_max_desc_sets_limit ==
               Min(kMaxAdjustedBoundDescriptorSet, d.maxBoundDescriptorSets)
           failed == FirstFailingCheck(d, adjusted_max_desc_sets_limit)
           \* the objects created before the failing create call, or all three
           desc_layout == IF d.failing_create = 1 THEN VK_NULL_HANDLE
                          ELSE InstrumentationDescLayoutHandle
           dummy_layout == IF d.failing_create \in {1, 2} THEN VK_NULL_HANDLE
                           ELSE DummyDescLayoutHandle
           pipeline_layout == IF d.failing_create # 0 THEN VK_NULL_HANDLE
                              ELSE InstrumentationPipelineLayoutHandle
           objects ==
               [h \in InternalHandles |->
                   IF h \in {desc_layout, dummy_layout, pipeline_layout}
                   THEN Created(driver_objects, h)[h] ELSE driver_objects[h]]
       IN  /\ instrumentation_desc_set_bind_index_' =
                    IF failed \in {"fragmentStoresAndAtomics", "vertexPipelineStoresAndAtomics"}
                    THEN instrumentation_desc_set_bind_index_
                    ELSE USub(adjusted_max_desc_sets_limit, 1)
           /\ call' = [op |-> "CreateDevice", stage |-> "post", device |-> d,
                       errors |-> IF failed # None \/ d.failing_create # 0 THEN 1 ELSE 0,
                       error |-> IF failed # None THEN failed ELSE CreateFailure(d)]
           /\ IF failed # None
              THEN /\ InternalError
                   /\ UNCHANGED <<instrumentation_desc_layout_, dummy_desc_layout_,
                                  instrumentation_pipeline_layout_, driver_objects>>
              ELSE IF d.failing_create # 0
              THEN /\ InternalError
                   /\ Cleanup(desc_layout, dummy_layout, pipeline_layout, objects)
              ELSE /\ instrumentation_desc_layout_' = desc_layout
                   /\ dummy_desc_layout_' = dummy_layout
                   /\ instrumentation_pipeline_layout_' = pipeline_layout
                   /\ driver_objects' = objects
                   /\ UNCHANGED <<aborted_, dispatch_registered>>
    /\ UNCHANGED <<lockVars, deferred_operation_post_check, driver_shader_modules, driver_library_pipelines, cache_log, gpuav_settings, selected_instrumented_shaders,
                   instrumented_shaders_cache_, instrumented_shaders_map_,
                   unique_shader_module_id_, shader_objects, pipelines>>

\* the application has destroyed the device's child objects by then
PreCallRecordDestroyDevice ==
    /\ phase = "live"
    /\ dispatch_registered
    /\ call.stage = "idle"
    /\ shader_objects = {}
    /\ \A p \in PipelineHandles : ~pipelines[p].alive
    /\ phase' = "destroyed"
    /\ Cleanup(instrumentation_desc_layout_, dummy_desc_layout_,
               instrumentation_pipeline_layout_, driver_objects)
    /\ UNCHANGED <<lockVars, deferred_operation_post_check, driver_shader_modules, driver_library_pipelines, cache_log, gpuav_settings, aborted_, dispatch_registered,
                   instrumentation_desc_set_bind_index_, selected_instrumented_shaders,
                   instrumented_shaders_cache_, instrumented_shaders_map_,
                   unique_shader_module_id_, shader_objects, pipelines, call>>

\* the limit handed back to the application, and the warnings given
ReserveBindingSlot(maxBoundDescriptorSets, reserve_binding_slot) ==
    IF maxBoundDescriptorSets = 0
    THEN [maxBoundDescriptorSets |-> maxBoundDescriptorSets, warnings |-> 0]
    ELSE LET too_large ==
                 IF maxBoundDescriptorSets > kMaxAdjustedBoundDescriptorSet
                 THEN InternalWarning(0) ELSE 0
         IN  IF ~reserve_binding_slot
             THEN [maxBoundDescriptorSets |-> maxBoundDescriptorSets, warnings |-> too_large]
             ELSE IF maxBoundDescriptorSets > 1
             THEN [maxBoundDescriptorSets |-> USub(maxBoundDescriptorSets, 1),
                   warnings |-> too_large]
             ELSE [maxBoundDescriptorSets |-> maxBoundDescriptorSets,
                   warnings |-> InternalWarning(too_large)]

\* PostCallRecordGetPhysicalDeviceProperties and ...Properties2
PostCallRecordGetPhysicalDeviceProperties(maxBoundDescriptorSets, reserve_binding_slot) ==
    /\ call.stage = "idle"
    /\ call' = [op |-> "GetPhysicalDeviceProperties", stage |-> "post",
                maxBoundDescriptorSets |-> maxBoundDescriptorSets,
                reserve_binding_slot |-> reserve_binding_slot,
                limits |-> ReserveBindingSlot(maxBoundDescriptorSets, reserve_binding_slot)]
    /\ UNCHANGED <<lockVars, deferred_operation_post_check, driver_shader_modules, driver_library_pipelines, cache_log, driver_objects, gpuav_settings, phase, coreVars,
                   selected_instrumented_shaders, instrumented_shaders_cache_,
                   instrumented_shaders_map_, unique_shader_module_id_, shader_objects,
                   pipelines>>

\* a hook of the core is invoked only while its dispatch object is registered
Intercepting == phase = "live" /\ dispatch_registered /\ call.stage = "idle"

(* ------------------------- layout adaptation -------------------------- *)
RECURSIVE AllSeqs(_, _)
AllSeqs(S, n) ==
    IF n = 0 THEN {<<>>}
    ELSE LET shorter == AllSeqs(S, n - 1)
         IN  shorter \cup {Append(s, x) : s \in {t \in shorter : Len(t) = n - 1}, x \in S}

\* the caller's set-layout array of length n
SetLayoutPrefix(n) == [i \in 1..n |-> IF i % 2 = 1 THEN "A" ELSE "B"]

\* the caller's VkPipelineLayoutCreateInfo
PipelineLayoutCreateInfos ==
    {[pSetLayouts |-> SetLayoutPrefix(n), setLayoutCount |-> n] : n \in 0..MaxSetLayoutCount}

\* the caller's layouts, dummy layouts up to the reserved slot, then the
\* instrumentation layout
RECURSIVE PushDummies(_, _, _, _)
PushDummies(new_layouts, i, bind_index, dummy) ==
    IF i < bind_index THEN PushDummies(Append(new_layouts, dummy), i + 1, bind_index, dummy)
    ELSE new_layouts

\* variant: no dummy layouts between the caller's layouts and the reserved slot
NewLayouts_NoDummies(pSetLayouts, setLayoutCount, bind_index, dummy, instrumentation) ==
    Append(SubSeq(pSetLayouts, 1, setLayoutCount), instrumentation)

NewLayouts(pSetLayouts, setLayoutCount, bind_index, dummy, instrumentation) ==
    Append(PushDummies(SubSeq(pSetLayouts, 1, setLayoutCount), setLayoutCount, bind_index, dummy),
           instrumentation)

\* variant: a count equal to the reserved slot overflows too
Overflow_Geq(setLayoutCount, bind_index) == setLayoutCount >= bind_index

\* the caller's layouts leave no room for the reserved slot
Overflow(setLayoutCount, bind_index) == setLayoutCount > bind_index

\* variant: the layout is adapted without asking IsSpirvModified()
PreCallRecordCreatePipelineLayout_Unguarded(pCreateInfo) ==
    /\ Intercepting
    /\ LET overflow == Overflow(pCreateInfo.setLayoutCount, instrumentation_desc_set_bind_index_)
           new_layouts == NewLayouts(pCreateInfo.pSetLayouts, pCreateInfo.setLayoutCount,
                                     instrumentation_desc_set_bind_index_,
                                     dummy_desc_layout_, instrumentation_desc_layout_)
       IN  call' = [op |-> "CreatePipelineLayout", stage |-> "pre",
                    pCreateInfo |-> pCreateInfo,
                    modified_create_info |->
                        IF ~overflow
                        THEN [pSetLayouts |-> new_layouts,
                              setLayoutCount |-> instrumentation_desc_set_bind_index_ + 1]
                        ELSE pCreateInfo,
                    warnings |-> IF overflow THEN InternalWarning(0) ELSE 0,
                    errors |-> 0]
    /\ UNCHANGED <<lockVars, deferred_operation_post_check, driver_shader_modules, driver_library_pipelines, cache_log, driver_objects, gpuav_settings, phase, coreVars, selected_instrumented_shaders,
                   instrumented_shaders_cache_, instrumented_shaders_map_,
                   unique_shader_module_id_, shader_objects, pipelines>>

PreCallRecordCreatePipelineLayout(pCreateInfo) ==
    /\ Intercepting
    /\ LET overflow == Overflow(pCreateInfo.setLayoutCount, instrumentation_desc_set_bind_index_)
           new_layouts == NewLayouts(pCreateInfo.pSetLayouts, pCreateInfo.setLayoutCount,
                                     instrumentation_desc_set_bind_index_,
                                     dummy_desc_layout_, instrumentation_desc_layout_)
       IN  call' = [op |-> "CreatePipelineLayout", stage |-> "pre",
                    pCreateInfo |-> pCreateInfo,
                    modified_create_info |->
                        IF IsSpirvModified(gpuav_settings) /\ ~overflow
                        THEN [pSetLayouts |-> new_layouts,
                              setLayoutCount |-> instrumentation_desc_set_bind_index_ + 1]
                        ELSE pCreateInfo,
                    warnings |-> IF IsSpirvModified(gpuav_settings) /\ overflow
                                 THEN InternalWarning(0) ELSE 0,
                    errors |-> 0]
    /\ UNCHANGED <<lockVars, deferred_operation_post_check, driver_shader_modules, driver_library_pipelines, cache_log, driver_objects, gpuav_settings, phase, coreVars, selected_instrumented_shaders,
                   instrumented_shaders_cache_, instrumented_shaders_map_,
                   unique_shader_module_id_, shader_objects, pipelines>>

PostCallRecordCreatePipelineLayout(result_ok) ==
    /\ phase = "live" /\ dispatch_registered
    /\ call.op = "CreatePipelineLayout" /\ call.stage = "pre"
    /\ IF result_ok
       THEN /\ call' = [call EXCEPT !.stage = "post"]
            /\ UNCHANGED <<aborted_, dispatch_registered>>
       ELSE /\ call' = [call EXCEPT !.stage = "post", !.errors = @ + 1]
            /\ InternalError
    /\ UNCHANGED <<lockVars, deferred_operation_post_check, driver_shader_modules, driver_library_pipelines, cache_log, driver_objects, gpuav_settings, phase, instrumentation_desc_set_bind_index_,
                   instrumentation_desc_layout_, dummy_desc_layout_,
                   instrumentation_pipeline_layout_, selected_instrumented_shaders,
                   instrumented_shaders_cache_, instrumented_shaders_map_,
                   unique_shader_module_id_, shader_objects, pipelines>>

(* --------------------------- shader objects --------------------------- *)
\* chassis::ShaderObjectInstrumentationData / ShaderInstrumentationMetadata
IsInstrumented(data) == data.unique_shader_id # 0

\* VkValidationFeaturesEXT with GPU_ASSISTED in the pNext chain
IsSelectiveInstrumentationEnabled(pNext) == pNext = "gpu_assisted"

HasBindlessDescriptorsShaderObject(create_info) ==
    \E layout_i \in 1..Min(create_info.setLayoutCount, Len(create_info.pSetLayouts)) :
        IsBindless(create_info.pSetLayouts[layout_i])

PNexts == {None}

\* the caller's VkShaderCreateInfoEXT
ShaderCreateInfo(w, n, x) ==
    [pCode |-> w, pSetLayouts |-> SetLayoutPrefix(n), setLayoutCount |-> n, pNext |-> x]

ShaderCreateInfos ==
    {ShaderCreateInfo(W1, n, x) : n \in 0..MaxSetLayoutCount, x \in PNexts}
        \cup {ShaderCreateInfo(w, 0, x) : w \in {WPlain, WNotSpirv}, x \in PNexts}

\* batches of instrumentable shaders, and every create-info on its own
ShaderBatches ==
    {<<ci>> : ci \in ShaderCreateInfos}
        \cup {b \in AllSeqs({ci \in ShaderCreateInfos : ci.pCode = W1}, MaxBatch) : Len(b) >= 2}

\* spirv-opt may fail on the shader of a single create-info
ShaderObjectEnvsOf(b) == IF Len(b) = 1 THEN ShaderObjectEnvs ELSE {EnvOk}

EmptyInstrumentationData ==
    [unique_shader_id |-> 0, instrumented_spirv |-> <<>>, new_layouts |-> <<>>]

\* acc threads the cache, the id counter and the error flag through a call;
\* the result adds the rewritten create-info and its instrumentation data
PreCallRecordShaderObjectInstrumentation(create_info, data, env, acc) ==
    IF gpuav_settings.select_instrumented_shaders
            /\ ~IsSelectiveInstrumentationEnabled(create_info.pNext)
    THEN [acc EXCEPT !.create_info = create_info, !.data = data]
    ELSE
    LET cache_on == gpuav_settings.cache_instrumented_shaders
        unique_shader_id ==
            IF cache_on THEN ShaderHash(create_info.pCode) ELSE acc.unique_id
        spirv == SpirvCacheGet(acc.cache, unique_shader_id)
        cached == cache_on /\ spirv.found
        has_bindless_descriptors == HasBindlessDescriptorsShaderObject(create_info)
        res == InstrumentShader(create_info.pCode, unique_shader_id, has_bindless_descriptors,
                                env, gpuav_settings, instrumentation_desc_set_bind_index_)
        pass == ~cached /\ res.pass
        instrumented_spirv == IF cached THEN spirv.spirv ELSE res.out
    IN  [acc EXCEPT
            !.unique_id = IF cache_on THEN @ ELSE @ + 1,
            !.error = @ \/ (~cached /\ res.error),
            !.errors = @ + (IF ~cached /\ res.error THEN 1 ELSE 0),
            !.instrument_calls = IF cached THEN @
                                 ELSE Append(@, [words |-> create_info.pCode, result |-> res]),
            !.cache = IF (cached \/ pass) /\ cache_on /\ ~cached
                      THEN SpirvCacheAdd(@, unique_shader_id, instrumented_spirv)
                      ELSE @,
            !.data = [data EXCEPT
                        !.instrumented_spirv = instrumented_spirv,
                        !.unique_shader_id = IF cached \/ pass THEN unique_shader_id ELSE @],
            !.create_info = IF cached \/ pass
                            THEN [create_info EXCEPT !.pCode = instrumented_spirv]
                            ELSE create_info]

RECURSIVE CreateShadersLoop(_, _, _, _)
CreateShadersLoop(i, pCreateInfos, env, acc) ==
    IF i > Len(pCreateInfos) THEN acc
    ELSE
    LET overflow == Overflow(pCreateInfos[i].setLayoutCount, instrumentation_desc_set_bind_index_)
        new_layouts == NewLayouts(pCreateInfos[i].pSetLayouts, pCreateInfos[i].setLayoutCount,
                                  instrumentation_desc_set_bind_index_,
                                  dummy_desc_layout_, instrumentation_desc_layout_)
        new_create_info ==
            IF overflow THEN pCreateInfos[i]
            ELSE [pCreateInfos[i] EXCEPT
                    !.pSetLayouts = new_layouts,
                    !.setLayoutCount = instrumentation_desc_set_bind_index_ + 1]
        instrumentation_data ==
            IF overflow THEN EmptyInstrumentationData
            ELSE [EmptyInstrumentationData EXCEPT !.new_layouts = new_layouts]
        done == PreCallRecordShaderObjectInstrumentation(
                    new_create_info, instrumentation_data, env,
                    [acc EXCEPT !.warnings = Append(@, IF overflow THEN InternalWarning(0) ELSE 0)])
    IN  CreateShadersLoop(i + 1, pCreateInfos, env,
            [done EXCEPT !.modified_create_infos = Append(@, done.create_info),
                         !.instrumentations_data = Append(@, done.data)])

\* the counter stays within its modelled range
CounterRoom(n) ==
    gpuav_settings.cache_instrumented_shaders \/ unique_shader_module_id_ + n <= MaxUniqueId + 1

PreCallRecordCreateShadersEXT(pCreateInfos, env) ==
    /\ Intercepting
    /\ CounterRoom(Len(pCreateInfos))
    /\ Cardinality(ShaderObjectHandles \ shader_objects) >= Len(pCreateInfos)
    /\ IF ~IsSpirvModified(gpuav_settings)
       THEN /\ call' = [op |-> "CreateShadersEXT", stage |-> "pre",
                        pCreateInfos |-> pCreateInfos,
                        modified_create_infos |-> pCreateInfos,
                        instrumentations_data |-> <<>>,
                        instrument_calls |-> <<>>,
                        warnings |-> [i \in 1..Len(pCreateInfos) |-> 0], errors |-> 0]
            /\ UNCHANGED <<instrumented_shaders_cache_, unique_shader_module_id_,
                           aborted_, dispatch_registered>>
       ELSE LET acc == CreateShadersLoop(1, pCreateInfos, env,
                            [cache |-> instrumented_shaders_cache_,
                             unique_id |-> unique_shader_module_id_,
                             error |-> FALSE, errors |-> 0, warnings |-> <<>>,
                             instrument_calls |-> <<>>,
                             modified_create_infos |-> <<>>, instrumentations_data |-> <<>>,
                             create_info |-> [pCode |-> <<>>],
                             data |-> EmptyInstrumentationData])
            IN  /\ call' = [op |-> "CreateShadersEXT", stage |-> "pre",
                            pCreateInfos |-> pCreateInfos,
                            modified_create_infos |-> acc.modified_create_infos,
                            instrumentations_data |-> acc.instrumentations_data,
                            instrument_calls |-> acc.instrument_calls,
                            warnings |-> acc.warnings, errors |-> acc.errors]
                /\ instrumented_shaders_cache_' = acc.cache
                /\ unique_shader_module_id_' = acc.unique_id
                /\ IF acc.error THEN InternalError
                   ELSE UNCHANGED <<aborted_, dispatch_registered>>
    /\ UNCHANGED <<lockVars, deferred_operation_post_check, driver_shader_modules, driver_library_pipelines, cache_log, driver_objects, gpuav_settings, phase, instrumentation_desc_set_bind_index_,
                   instrumentation_desc_layout_, dummy_desc_layout_,
                   instrumentation_pipeline_layout_, selected_instrumented_shaders,
                   instrumented_shaders_map_, shader_objects, pipelines>>

\* concurrent map insert_or_assign: one record per unique shader id
InsertOrAssign(map, id, pipeline, shader_module, shader_object, words) ==
    {r \in map : r.id # id}
        \cup {[id |-> id, pipeline |-> pipeline, shader_module |-> shader_module,
               shader_object |-> shader_object, original_words |-> words]}

RECURSIVE PostCreateShadersLoop(_, _, _, _)
PostCreateShadersLoop(i, pShaders, instrumentations_data, map) ==
    IF i > Len(pShaders) THEN map
    ELSE PostCreateShadersLoop(i + 1, pShaders, instrumentations_data,
            IF ~IsInstrumented(instrumentations_data[i]) THEN map
            ELSE InsertOrAssign(map, instrumentations_data[i].unique_shader_id,
                                VK_NULL_HANDLE, VK_NULL_HANDLE, pShaders[i],
                                instrumentations_data[i].instrumented_spirv))

\* the handles the driver returns for a batch of n: the first n not in use
RECURSIVE FreshHandles(_, _, _)
FreshHandles(pool, in_use, n) ==
    IF n = 0 \/ pool = <<>> THEN <<>>
    ELSE IF Head(pool) \in in_use THEN FreshHandles(Tail(pool), in_use, n)
    ELSE <<Head(pool)>> \o FreshHandles(Tail(pool), in_use, n - 1)

PostCallRecordCreateShadersEXT(pShaders) ==
    /\ phase = "live" /\ dispatch_registered
    /\ call.op = "CreateShadersEXT" /\ call.stage = "pre"
    /\ Len(pShaders) = Len(call.pCreateInfos)
    /\ shader_objects' = shader_objects \cup
            ({pShaders[i] : i \in 1..Len(pShaders)} \ {VK_NULL_HANDLE})
    /\ call' = [call EXCEPT !.stage = "post"] @@ [pShaders |-> pShaders]
    /\ instrumented_shaders_map_' =
            IF ~IsSpirvModified(gpuav_settings) THEN instrumented_shaders_map_
            ELSE PostCreateShadersLoop(1, pShaders, call.instrumentations_data,
                                       instrumented_shaders_map_)
    /\ UNCHANGED <<lockVars, deferred_operation_post_check, driver_shader_modules, driver_library_pipelines, cache_log, driver_objects, gpuav_settings, phase, coreVars, selected_instrumented_shaders,
                   instrumented_shaders_cache_, unique_shader_module_id_, pipelines>>

\* the ids a snapshot by predicate returns
SnapshotIds(map, field, handle) == {r.id : r \in {entry \in map : entry[field] = handle}}

\* snapshot by predicate, then erase the ids found
PreCallRecordDestroyShaderEXT(shader) ==
    /\ Intercepting
    /\ shader \in shader_objects
    /\ LET to_erase == SnapshotIds(instrumented_shaders_map_, "shader_object", shader)
       IN  /\ instrumented_shaders_map_' =
                    {r \in instrumented_shaders_map_ : r.id \notin to_erase}
           /\ call' = [op |-> "DestroyShaderEXT", stage |-> "post", shader |-> shader,
                       erased |-> to_erase]
    /\ shader_objects' = shader_objects \ {shader}
    /\ UNCHANGED <<lockVars, deferred_operation_post_check, driver_shader_modules, driver_library_pipelines, cache_log, driver_objects, gpuav_settings, phase, coreVars, selected_instrumented_shaders,
                   instrumented_shaders_cache_, unique_shader_module_id_, pipelines>>

(* ----------------------------- pipelines ------------------------------ *)
\* VkPipelineShaderStageCreateInfo: a module handle, or SPIR-V inlined by a
\* VkShaderModuleCreateInfo in the pNext chain (sm_ci); a graphics pipeline
\* library part such as fragment output has no stages
NoShaderModuleCreateInfo == [present |-> FALSE, code |-> <<>>, pNext |-> None]

ByHandle(stage, m) == [stage |-> stage, module |-> m, sm_ci |-> NoShaderModuleCreateInfo]
Inlined(stage, x) ==
    [stage |-> stage, module |-> VK_NULL_HANDLE,
     sm_ci |-> [present |-> TRUE, code |-> W2, pNext |-> x]]

StageInfos(stage) ==
    {ByHandle(stage, m) : m \in ShaderModuleHandles} \cup {Inlined(stage, x) : x \in PNexts}

StageLists(kind) ==
    CASE kind = "Compute" -> {<<s>> : s \in StageInfos("compute")}
      [] kind = "Graphics" ->
            {<<v>> : v \in StageInfos("vertex")}
                \cup {<<ByHandle("vertex", "M1"), ByHandle("fragment", "M1")>>,
                      <<ByHandle("vertex", "M1"), Inlined("fragment", None)>>,
                      <<>>}
      [] OTHER -> {<<ByHandle("raygen", "M1")>>}

\* vvl::ShaderModule of a stage: its handle and its SPIR-V
ModuleState(info) ==
    [present |-> TRUE,
     handle |-> info.module,
     words |-> IF info.module # VK_NULL_HANDLE THEN ModuleWords(info.module)
               ELSE info.sm_ci.code]

\* vvl::Pipeline as the state tracker hands it to the hooks
PipelineState(kind, library, set_layouts, active_slots, pStages) ==
    [kind |-> kind,
     create_flags_library |-> library,
     has_pipeline_layout |-> TRUE,
     set_layouts |-> set_layouts,
     active_slots |-> active_slots,
     create_info |-> [pStages |-> pStages],
     stage_states |-> [i \in 1..Len(pStages) |->
                          [pipeline_create_info |-> pStages[i],
                           module_state |-> ModuleState(pStages[i])]],
     instrumented_shader_module |-> <<>>]

\* the shaders of a pipeline with a full layout may use its last set
ActiveSlots(kind, n) ==
    {{}} \cup (IF kind = "Compute" /\ n = MaxSetLayoutCount THEN {{n - 1}} ELSE {})

PipelineStates(kind) ==
    UNION {{PipelineState(kind, library, SetLayoutPrefix(n), slots, stages) :
                library \in (IF kind = "Graphics" /\ n = 0 THEN BOOLEAN ELSE {FALSE}),
                slots \in ActiveSlots(kind, n),
                stages \in StageLists(kind)} :
           n \in 0..MaxSetLayoutCount}

\* a creation call carries one create-info
GraphicsBatches == {<<ps>> : ps \in PipelineStates("Graphics")}
ComputeBatches == {<<ps>> : ps \in PipelineStates("Compute")}
RayTracingNVBatches == {<<ps>> : ps \in PipelineStates("RayTracingNV")}
RayTracingKHRBatches == {<<ps>> : ps \in PipelineStates("RayTracingKHR")}

\* spirv-opt or vkCreateShaderModule may fail for a pipeline without set layouts
PipelineEnvsOf(pipeline_states) ==
    IF pipeline_states[1].set_layouts = <<>> THEN PipelineEnvs ELSE {EnvOk}

\* variant: the set count of the pipeline layout is not looked at
NeedPipelineCreationShaderInstrumentation_AnyLayout(pipeline_state) ==
    IF pipeline_state.stage_states = <<>> THEN FALSE
    ELSE IF pipeline_state.create_flags_library THEN FALSE
    ELSE IF instrumentation_desc_set_bind_index_ \in pipeline_state.active_slots THEN FALSE
    ELSE TRUE

NeedPipelineCreationShaderInstrumentation(pipeline_state) ==
    IF pipeline_state.stage_states = <<>> THEN FALSE
    ELSE IF pipeline_state.create_flags_library THEN FALSE
    ELSE IF instrumentation_desc_set_bind_index_ \in pipeline_state.active_slots THEN FALSE
    ELSE IF pipeline_state.has_pipeline_layout
            /\ Len(pipeline_state.set_layouts) > instrumentation_desc_set_bind_index_ THEN FALSE
    ELSE TRUE

HasBindlessDescriptorsPipeline(pipeline_state) ==
    IF ~pipeline_state.has_pipeline_layout THEN FALSE
    ELSE \E i \in 1..Len(pipeline_state.set_layouts) : IsBindless(pipeline_state.set_layouts[i])

\* index in pStages of the first entry of that stage, 0 for the static null_stage
GetShaderStageCI(kind, ci, stage) ==
    IF kind = "Compute" THEN 1
    ELSE IF \E i \in 1..Len(ci.pStages) : ci.pStages[i].stage = stage
    THEN CHOOSE i \in 1..Len(ci.pStages) :
            /\ ci.pStages[i].stage = stage
            /\ \A j \in 1..(i - 1) : ci.pStages[j].stage # stage
    ELSE 0

SetShaderModule(create_info, stage_info, shader_module, stage_ci_index) ==
    [create_info EXCEPT !.pStages[stage_ci_index] = [stage_info EXCEPT !.module = shader_module]]

EmptyMetadata == [unique_shader_id |-> 0, passed_in_shader_stage_ci |-> FALSE]

\* handles the driver returns for replacement shader modules
InstrumentedModuleHandles == <<"IM1", "IM2", "IM3", "IM4">>

NewShaderModuleHandle(in_use) ==
    InstrumentedModuleHandles[
        CHOOSE k \in 1..Len(InstrumentedModuleHandles) :
            /\ InstrumentedModuleHandles[k] \notin in_use
            /\ \A j \in 1..(k - 1) : InstrumentedModuleHandles[j] \in in_use]

Range(seq) == {seq[i] : i \in 1..Len(seq)}

\* the driver has handles left for n more shader modules
ModuleRoom(n) ==
    Cardinality(Range(InstrumentedModuleHandles) \ driver_shader_modules) >= n

ModulesInUse(pipes) ==
    UNION {{pipes[p].instrumented_shader_module[i] :
                i \in 1..Len(pipes[p].instrumented_shader_module)} :
           p \in PipelineHandles}

NoPipeline ==
    [alive |-> FALSE, instrumented_shader_module |-> <<>>, was_instrumented |-> FALSE,
     instrumented_ids |-> {}, pre_raster_lib |-> VK_NULL_HANDLE,
     frag_out_lib |-> VK_NULL_HANDLE, pLibraries |-> <<>>, new_lib_pipelines |-> {}]

\* variant: no stage is left out
SkippedBySelection_Never(sm_ci, module_handle) == FALSE

\* the stage is left out when only the shaders the application picks are
\* instrumented
SkippedBySelection(sm_ci, module_handle) ==
    /\ gpuav_settings.select_instrumented_shaders
    /\ IF sm_ci.present /\ ~IsSelectiveInstrumentationEnabled(sm_ci.pNext) THEN TRUE
       ELSE module_handle \notin selected_instrumented_shaders

\* the body of the stage loop for a stage that is not left out: spirv is the
\* result of the cache lookup, res that of InstrumentShader
InstrumentStage(i, stage_state, stage_ci, sm_ci, env, acc, unique_shader_id, spirv, res) ==
    LET module_state == stage_state.module_state
        cache_on == gpuav_settings.cache_instrumented_shaders
        cached == cache_on /\ spirv.found
        pass == ~cached /\ res.pass
        instrumented_spirv == IF cached THEN spirv.spirv ELSE res.out
        by_handle == module_state.handle # VK_NULL_HANDLE
        instrumented_shader_module ==
            NewShaderModuleHandle(acc.modules_in_use)
        after_rewrite ==
            [acc EXCEPT !.unique_id = IF cache_on THEN @ ELSE @ + 1,
                        !.instrument_calls =
                            IF cached THEN @
                            ELSE Append(@, [words |-> module_state.words, result |-> res]),
                        !.error = @ \/ (~cached /\ res.error),
                        !.errors = @ + (IF ~cached /\ res.error THEN 1 ELSE 0)]
        substituted ==
            IF by_handle
            THEN IF env.create_shader_module_ok
                 THEN [after_rewrite EXCEPT
                         !.ci = SetShaderModule(@, stage_state.pipeline_create_info,
                                                instrumented_shader_module, i),
                         !.instrumented_shader_module = Append(@, instrumented_shader_module),
                         !.created_shader_modules =
                             Append(@, [handle |-> instrumented_shader_module,
                                        pCode |-> instrumented_spirv]),
                         !.modules_in_use = @ \cup {instrumented_shader_module}]
                 ELSE [after_rewrite EXCEPT !.error = TRUE, !.errors = @ + 1,
                                            !.module_errors = @ + 1]
            ELSE IF sm_ci.present
            THEN [after_rewrite EXCEPT
                    !.metadata[i].passed_in_shader_stage_ci = TRUE,
                    !.ci.pStages[stage_ci].sm_ci.code = instrumented_spirv]
            ELSE after_rewrite
    IN  IF ~(cached \/ pass) THEN after_rewrite
        ELSE [substituted EXCEPT
                !.metadata[i].unique_shader_id = unique_shader_id,
                !.cache = IF cache_on /\ ~cached
                          THEN SpirvCacheAdd(@, unique_shader_id, instrumented_spirv)
                          ELSE @]

RECURSIVE InstrumentStages(_, _, _, _)
InstrumentStages(i, pipeline_state, env, acc) ==
    IF i > Len(pipeline_state.stage_states) THEN acc
    ELSE
    LET stage_state == pipeline_state.stage_states[i]
        module_state == stage_state.module_state
        stage == stage_state.pipeline_create_info.stage
        stage_ci == GetShaderStageCI(pipeline_state.kind, acc.ci, stage)
        sm_ci == IF stage_ci = 0 THEN NoShaderModuleCreateInfo
                 ELSE acc.ci.pStages[stage_ci].sm_ci
        unique_shader_id == IF gpuav_settings.cache_instrumented_shaders
                            THEN ShaderHash(module_state.words) ELSE acc.unique_id
    IN  InstrumentStages(i + 1, pipeline_state, env,
            IF ~module_state.present \/ SkippedBySelection(sm_ci, module_state.handle) THEN acc
            ELSE InstrumentStage(i, stage_state, stage_ci, sm_ci, env, acc, unique_shader_id,
                    SpirvCacheGet(acc.cache, unique_shader_id),
                    InstrumentShader(module_state.words, unique_shader_id,
                                     acc.has_bindless_descriptors, env, gpuav_settings,
                                     instrumentation_desc_set_bind_index_)))

\* the template shared by the graphics, compute and ray-tracing pre-call hooks
PreCallRecordPipelineCreationShaderInstrumentation(pipeline_state, env, acc) ==
    InstrumentStages(1, pipeline_state, env,
        [acc EXCEPT !.ci = pipeline_state.create_info,
                    !.metadata = [i \in 1..Len(pipeline_state.stage_states) |-> EmptyMetadata],
                    !.instrumented_shader_module = <<>>,
                    !.has_bindless_descriptors = HasBindlessDescriptorsPipeline(pipeline_state)])

RECURSIVE CreatePipelinesLoop(_, _, _, _)
CreatePipelinesLoop(i, pipeline_states, env, acc) ==
    IF i > Len(pipeline_states) THEN acc
    ELSE
    LET need == NeedPipelineCreationShaderInstrumentation(pipeline_states[i])
        done == IF need
                THEN PreCallRecordPipelineCreationShaderInstrumentation(pipeline_states[i], env, acc)
                ELSE [acc EXCEPT !.ci = pipeline_states[i].create_info,
                                 !.metadata = <<>>,
                                 !.instrumented_shader_module = <<>>]
    IN  CreatePipelinesLoop(i + 1, pipeline_states, env,
            [done EXCEPT
                !.need = Append(@, need),
                !.modified_create_infos = Append(@, done.ci),
                !.shader_instrumentations_metadata = Append(@, done.metadata),
                !.pipeline_states = Append(@,
                    [pipeline_states[i] EXCEPT
                        !.instrumented_shader_module = done.instrumented_shader_module])])

CreateInfosOf(pipeline_states) ==
    [i \in 1..Len(pipeline_states) |-> pipeline_states[i].create_info]

RECURSIVE TotalStages(_)
TotalStages(pipeline_states) ==
    IF pipeline_states = <<>> THEN 0
    ELSE Len(pipeline_states[1].stage_states) + TotalStages(Tail(pipeline_states))

StagesIn(pipeline_states) ==
    IF pipeline_states = <<>> THEN 0
    ELSE Len(pipeline_states[1].stage_states)

\* PreCallRecordCreate{Graphics,Compute,RayTracingNV,RayTracingKHR}Pipelines
PreCallRecordCreatePipelines(kind, pipeline_states, env) ==
    /\ Intercepting
    /\ CounterRoom(StagesIn(pipeline_states))
    /\ Cardinality({p \in PipelineHandles : ~pipelines[p].alive}) >= Len(pipeline_states)
    /\ ModuleRoom(TotalStages(pipeline_states))
    /\ IF ~IsSpirvModified(gpuav_settings)
       THEN /\ call' = [op |-> kind, stage |-> "pre",
                        pCreateInfos |-> CreateInfosOf(pipeline_states),
                        modified_create_infos |-> CreateInfosOf(pipeline_states),
                        shader_instrumentations_metadata |-> <<>>,
                        instrument_calls |-> <<>>, created_shader_modules |-> <<>>,
                        module_errors |-> 0, need |-> <<>>,
                        pipeline_states |-> pipeline_states, errors |-> 0]
            /\ UNCHANGED <<instrumented_shaders_cache_, unique_shader_module_id_,
                           aborted_, dispatch_registered, driver_shader_modules, driver_library_pipelines>>
       ELSE LET acc == CreatePipelinesLoop(1, pipeline_states, env,
                            [cache |-> instrumented_shaders_cache_,
                             unique_id |-> unique_shader_module_id_,
                             error |-> FALSE, errors |-> 0, module_errors |-> 0,
                             need |-> <<>>,
                             instrument_calls |-> <<>>, created_shader_modules |-> <<>>,
                             modules_in_use |-> driver_shader_modules,
                             modified_create_infos |-> <<>>,
                             shader_instrumentations_metadata |-> <<>>,
                             pipeline_states |-> <<>>,
                             ci |-> [pStages |-> <<>>], metadata |-> <<>>,
                             instrumented_shader_module |-> <<>>,
                             has_bindless_descriptors |-> FALSE])
            IN  /\ call' = [op |-> kind, stage |-> "pre",
                            pCreateInfos |-> CreateInfosOf(pipeline_states),
                            modified_create_infos |-> acc.modified_create_infos,
                            shader_instrumentations_metadata |->
                                acc.shader_instrumentations_metadata,
                            instrument_calls |-> acc.instrument_calls,
                            created_shader_modules |-> acc.created_shader_modules,
                            module_errors |-> acc.module_errors, need |-> acc.need,
                            pipeline_states |-> acc.pipeline_states, errors |-> acc.errors]
                /\ instrumented_shaders_cache_' = acc.cache
                /\ unique_shader_module_id_' = acc.unique_id
                /\ driver_shader_modules' = acc.modules_in_use
                /\ UNCHANGED driver_library_pipelines
                /\ IF acc.error THEN InternalError
                   ELSE UNCHANGED <<aborted_, dispatch_registered>>
    /\ UNCHANGED <<lockVars, deferred_operation_post_check, cache_log, driver_objects, gpuav_settings, phase, instrumentation_desc_set_bind_index_,
                   instrumentation_desc_layout_, dummy_desc_layout_,
                   instrumentation_pipeline_layout_, selected_instrumented_shaders,
                   instrumented_shaders_map_, shader_objects, pipelines>>

PreCallRecordCreateGraphicsPipelines(pipeline_states, env) ==
    PreCallRecordCreatePipelines("Graphics", pipeline_states, env)

PreCallRecordCreateComputePipelines(pipeline_states, env) ==
    PreCallRecordCreatePipelines("Compute", pipeline_states, env)

PreCallRecordCreateRayTracingPipelinesNV(pipeline_states, env) ==
    PreCallRecordCreatePipelines("RayTracingNV", pipeline_states, env)

PreCallRecordCreateRayTracingPipelinesKHR(pipeline_states, env) ==
    PreCallRecordCreatePipelines("RayTracingKHR", pipeline_states, env)

\* registry records of the stages of one created pipeline
\* variant: the module handle of the stage as it is
RecordedShaderModule_Handle(module_state, instrumentation_metadata) == module_state.handle

\* the shader_module of the record of a stage
RecordedShaderModule(module_state, instrumentation_metadata) ==
    IF /\ module_state.handle = VK_NULL_HANDLE
       /\ instrumentation_metadata.passed_in_shader_stage_ci
    THEN kPipelineStageInfoHandle
    ELSE module_state.handle

RECURSIVE InsertStageRecords(_, _, _, _, _)
InsertStageRecords(i, pipeline, pipeline_state, metadata, map) ==
    IF i > Len(pipeline_state.stage_states) THEN map
    ELSE
    LET module_state == pipeline_state.stage_states[i].module_state
        shader_module_handle == RecordedShaderModule(module_state, metadata[i])
    IN  InsertStageRecords(i + 1, pipeline, pipeline_state, metadata,
            IF ~IsInstrumented(metadata[i]) THEN map
            ELSE InsertOrAssign(map, metadata[i].unique_shader_id, pipeline,
                                shader_module_handle, VK_NULL_HANDLE, module_state.words))

PostCallRecordPipelineCreationShaderInstrumentation(pipeline, pipeline_state, metadata, map) ==
    IF metadata = <<>> THEN map
    ELSE InsertStageRecords(1, pipeline, pipeline_state, metadata, map)

RECURSIVE PostCreatePipelinesLoop(_, _, _, _)
PostCreatePipelinesLoop(i, pPipelines, c, map) ==
    IF i > Len(pPipelines) THEN map
    ELSE PostCreatePipelinesLoop(i + 1, pPipelines, c,
            \* ASSERT_AND_CONTINUE(pipeline_state): no state for a null handle
            IF pPipelines[i] = VK_NULL_HANDLE THEN map
            ELSE IF c.op = "Graphics" /\ c.pipeline_states[i].create_flags_library THEN map
            ELSE PostCallRecordPipelineCreationShaderInstrumentation(
                    pPipelines[i], c.pipeline_states[i],
                    c.shader_instrumentations_metadata[i], map))

\* the ids recorded for the instrumented stages of a create-info
InstrumentedIds(metadata) ==
    {metadata[i].unique_shader_id : i \in {j \in 1..Len(metadata) : IsInstrumented(metadata[j])}}

\* PostCallRecordCreate{Graphics,Compute,RayTracingNV,RayTracingKHR}Pipelines
PostCallRecordCreatePipelinesWith(kind, pPipelines, deferredOperation, result) ==
    /\ phase = "live" /\ dispatch_registered
    /\ call.op = kind /\ call.stage = "pre"
    /\ Len(pPipelines) = Len(call.pCreateInfos)
    /\ call' = [call EXCEPT !.stage = "post"]
                    @@ [pPipelines |-> pPipelines, deferredOperation |-> deferredOperation,
                        result |-> result, registry |-> instrumented_shaders_map_]
    /\ instrumented_shaders_map_' =
            IF ~IsSpirvModified(gpuav_settings) THEN instrumented_shaders_map_
            ELSE PostCreatePipelinesLoop(1, pPipelines, call, instrumented_shaders_map_)
    /\ pipelines' =
            [p \in PipelineHandles |->
                IF \E i \in 1..Len(pPipelines) : pPipelines[i] = p
                THEN LET i == CHOOSE j \in 1..Len(pPipelines) : pPipelines[j] = p
                         metadata == IF IsSpirvModified(gpuav_settings)
                                     THEN call.shader_instrumentations_metadata[i]
                                     ELSE <<>>
                         recorded == ~(kind = "Graphics"
                                        /\ call.pipeline_states[i].create_flags_library)
                     IN  [alive |-> TRUE,
                          instrumented_shader_module |->
                              call.pipeline_states[i].instrumented_shader_module,
                          was_instrumented |-> recorded /\ InstrumentedIds(metadata) # {},
                          instrumented_ids |-> IF recorded THEN InstrumentedIds(metadata) ELSE {},
                          pre_raster_lib |-> VK_NULL_HANDLE,
                          frag_out_lib |-> VK_NULL_HANDLE,
                          pLibraries |-> <<>>, new_lib_pipelines |-> {}]
                ELSE pipelines[p]]
    /\ UNCHANGED <<lockVars, deferred_operation_post_check, driver_shader_modules, driver_library_pipelines, cache_log, driver_objects, gpuav_settings, phase, coreVars, selected_instrumented_shaders,
                   instrumented_shaders_cache_, unique_shader_module_id_, shader_objects>>

PostCallRecordCreatePipelines(kind, pPipelines) ==
    PostCallRecordCreatePipelinesWith(kind, pPipelines, VK_NULL_HANDLE, "VK_SUCCESS")

PostCallRecordCreateGraphicsPipelines(pPipelines) ==
    PostCallRecordCreatePipelines("Graphics", pPipelines)

PostCallRecordCreateComputePipelines(pPipelines) ==
    PostCallRecordCreatePipelines("Compute", pPipelines)

PostCallRecordCreateRayTracingPipelinesNV(pPipelines) ==
    PostCallRecordCreatePipelines("RayTracingNV", pPipelines)

\* what dereferencing the state of an element without state can do: the
\* process stops there, or goes on unharmed
NullDereference(pPipelines) ==
    IF IsSpirvModified(gpuav_settings)
            /\ \E i \in 1..Len(pPipelines) : pPipelines[i] = VK_NULL_HANDLE
    THEN BOOLEAN ELSE {FALSE}

\* the process stops at the first element without state: the elements before
\* it have their records, the call never returns
StoppedAtNullPipeline(pPipelines, deferredOperation, result) ==
    /\ phase = "live" /\ dispatch_registered
    /\ call.op = "RayTracingKHR" /\ call.stage = "pre"
    /\ Len(pPipelines) = Len(call.pCreateInfos)
    /\ LET i == CHOOSE j \in 1..Len(pPipelines) :
                    /\ pPipelines[j] = VK_NULL_HANDLE
                    /\ \A k \in 1..(j - 1) : pPipelines[k] # VK_NULL_HANDLE
       IN  instrumented_shaders_map_' =
                PostCreatePipelinesLoop(1, SubSeq(pPipelines, 1, i - 1), call,
                                        instrumented_shaders_map_)
    /\ call' = [call EXCEPT !.stage = "stopped"]
                    @@ [pPipelines |-> pPipelines, deferredOperation |-> deferredOperation,
                        result |-> result, registry |-> instrumented_shaders_map_]
    /\ UNCHANGED <<lockVars, deferred_operation_post_check, driver_shader_modules,
                   driver_library_pipelines, cache_log, driver_objects, gpuav_settings, phase,
                   coreVars, selected_instrumented_shaders, instrumented_shaders_cache_,
                   unique_shader_module_id_, shader_objects, pipelines>>

\* variant: the call is never taken as deferred
IsOperationDeferred_Never(deferredOperation, result) == FALSE

IsOperationDeferred(deferredOperation, result) ==
    deferredOperation # VK_NULL_HANDLE /\ result = "VK_OPERATION_DEFERRED_KHR"

\* variant: a missing list is started with the continuation
JoinPostChecks_StartsList(found, continuation) ==
    [first |-> TRUE, second |-> Append(found.second, continuation)]

\* the entry of the deferred operation after the hook: the list found with the
\* continuation appended, no entry when none was found
JoinPostChecks(found, continuation) ==
    IF found.first
    THEN [first |-> TRUE, second |-> Append(found.second, continuation)]
    ELSE NotFound

\* the continuation: records the stages of each pipeline the state tracker
\* knows by then
RECURSIVE DeferredPostCheck(_, _, _, _, _)
DeferredPostCheck(i, vk_pipelines, known, held_chassis_state, map) ==
    IF i > Len(vk_pipelines) THEN map
    ELSE DeferredPostCheck(i + 1, vk_pipelines, known, held_chassis_state,
            IF vk_pipelines[i] \notin known THEN map
            ELSE PostCallRecordPipelineCreationShaderInstrumentation(
                    vk_pipelines[i], held_chassis_state.pipeline_states[i],
                    held_chassis_state.shader_instrumentations_metadata[i], map))

\* the state tracker's part of the hook for a deferred call: it seeds the list
\* of the deferred operation with the post check that registers the pipelines
StateTrackerPostCheck(c) ==
    [fn |-> "ValidationStateTracker", pipeline_states |-> c.pipeline_states,
     shader_instrumentations_metadata |-> <<>>]

PostCallRecordCreateRayTracingPipelinesKHR(deferredOperation, result, seeded, pPipelines) ==
    IF IsOperationDeferred(deferredOperation, result)
    THEN /\ phase = "live" /\ dispatch_registered
         /\ call.op = "RayTracingKHR" /\ call.stage = "pre"
         /\ ~deferred_operation_post_check[deferredOperation].first
         /\ LET found == IF seeded
                         THEN [first |-> TRUE, second |-> <<StateTrackerPostCheck(call)>>]
                         ELSE NotFound
                continuation ==
                    [fn |-> "GpuShaderInstrumentor",
                     pipeline_states |-> call.pipeline_states,
                     shader_instrumentations_metadata |->
                        call.shader_instrumentations_metadata]
            IN  deferred_operation_post_check' =
                    [deferred_operation_post_check EXCEPT ![deferredOperation] =
                        IF IsSpirvModified(gpuav_settings)
                        THEN JoinPostChecks(found, continuation)
                        ELSE found]
         /\ call' = [call EXCEPT !.stage = "post"]
                        @@ [pPipelines |-> <<>>, deferredOperation |-> deferredOperation,
                            result |-> result, registry |-> instrumented_shaders_map_,
                            seeded |-> seeded]
         /\ UNCHANGED <<lockVars, driver_shader_modules, driver_library_pipelines, cache_log, driver_objects,
                        gpuav_settings, phase, coreVars, selected_instrumented_shaders,
                        instrumented_shaders_cache_, instrumented_shaders_map_,
                        unique_shader_module_id_, shader_objects, pipelines>>
    ELSE /\ deferredOperation \in DeferredOperations
                => ~deferred_operation_post_check[deferredOperation].first
         \* this loop has no ASSERT_AND_CONTINUE: *pipeline_state of an element
         \* without state is undefined
         /\ \E stopped \in NullDereference(pPipelines) :
                IF stopped
                THEN StoppedAtNullPipeline(pPipelines, deferredOperation, result)
                ELSE PostCallRecordCreatePipelinesWith("RayTracingKHR", pPipelines,
                                                       deferredOperation, result)

\* the post checks of a list run in order over the final handles
RECURSIVE RunPostChecks(_, _, _, _, _)
RunPostChecks(k, list, vk_pipelines, pipes, map) ==
    IF k > Len(list) THEN [pipelines |-> pipes, map |-> map]
    ELSE IF list[k].fn = "ValidationStateTracker"
    THEN RunPostChecks(k + 1, list, vk_pipelines,
            [p \in PipelineHandles |->
                IF \E i \in 1..Len(vk_pipelines) : vk_pipelines[i] = p
                THEN LET i == CHOOSE j \in 1..Len(vk_pipelines) : vk_pipelines[j] = p
                     IN  [alive |-> TRUE,
                          instrumented_shader_module |->
                              list[k].pipeline_states[i].instrumented_shader_module,
                          was_instrumented |-> FALSE,
                          instrumented_ids |-> {},
                          pre_raster_lib |-> VK_NULL_HANDLE,
                          frag_out_lib |-> VK_NULL_HANDLE,
                          pLibraries |-> <<>>, new_lib_pipelines |-> {}]
                ELSE pipes[p]],
            map)
    ELSE RunPostChecks(k + 1, list, vk_pipelines,
            [p \in PipelineHandles |->
                IF pipes[p].alive /\ \E i \in 1..Len(vk_pipelines) : vk_pipelines[i] = p
                THEN LET i == CHOOSE j \in 1..Len(vk_pipelines) : vk_pipelines[j] = p
                         ids == InstrumentedIds(list[k].shader_instrumentations_metadata[i])
                     IN  [pipes[p] EXCEPT !.was_instrumented = ids # {},
                                          !.instrumented_ids = ids]
                ELSE pipes[p]],
            DeferredPostCheck(1, vk_pipelines, {p \in PipelineHandles : pipes[p].alive},
                              list[k], map))

\* the deferred operation completed: the chassis takes its list of post checks
\* and runs them with the handles of the pipelines
DeferredOperationCompleted(deferredOperation, vk_pipelines) ==
    /\ Intercepting
    /\ deferred_operation_post_check[deferredOperation].first
    /\ LET list == deferred_operation_post_check[deferredOperation].second
           done == RunPostChecks(1, list, vk_pipelines, pipelines, instrumented_shaders_map_)
       IN  /\ Len(vk_pipelines) = Len(list[1].pipeline_states)
           /\ pipelines' = done.pipelines
           /\ instrumented_shaders_map_' = done.map
           /\ call' = [op |-> "DeferredOperationCompleted", stage |-> "post",
                       deferredOperation |-> deferredOperation,
                       post_checks |-> list, vk_pipelines |-> vk_pipelines,
                       registry |-> instrumented_shaders_map_]
    /\ deferred_operation_post_check' =
            [deferred_operation_post_check EXCEPT ![deferredOperation] = NotFound]
    /\ UNCHANGED <<lockVars, driver_shader_modules, driver_library_pipelines, cache_log, driver_objects,
                   gpuav_settings, phase, coreVars, selected_instrumented_shaders,
                   instrumented_shaders_cache_, unique_shader_module_id_, shader_objects>>

\* variant: the sweep matches every record
PreCallRecordDestroyPipeline_AnyRecord(pipeline) ==
    /\ Intercepting
    /\ pipelines[pipeline].alive
    /\ LET to_erase == {r.id : r \in instrumented_shaders_map_}
       IN  /\ instrumented_shaders_map_' =
                    {r \in instrumented_shaders_map_ : r.id \notin to_erase}
           /\ call' = [op |-> "DestroyPipeline", stage |-> "post", pipeline |-> pipeline,
                       erased |-> to_erase]
    /\ driver_shader_modules' =
            driver_shader_modules \ Range(pipelines[pipeline].instrumented_shader_module)
    /\ driver_library_pipelines' =
            driver_library_pipelines \ {pipelines[pipeline].pre_raster_lib,
                                        pipelines[pipeline].frag_out_lib}
    /\ pipelines' = [pipelines EXCEPT ![pipeline] = NoPipeline]
    /\ UNCHANGED <<lockVars, deferred_operation_post_check, cache_log, driver_objects, gpuav_settings, phase, coreVars, selected_instrumented_shaders,
                   instrumented_shaders_cache_, unique_shader_module_id_, shader_objects>>

\* Remove all the shader trackers associated with this destroyed pipeline
PreCallRecordDestroyPipeline(pipeline) ==
    /\ Intercepting
    /\ pipelines[pipeline].alive
    /\ LET to_erase == SnapshotIds(instrumented_shaders_map_, "pipeline", pipeline)
       IN  /\ instrumented_shaders_map_' =
                    {r \in instrumented_shaders_map_ : r.id \notin to_erase}
           /\ call' = [op |-> "DestroyPipeline", stage |-> "post", pipeline |-> pipeline,
                       erased |-> to_erase]
    /\ driver_shader_modules' =
            driver_shader_modules \ Range(pipelines[pipeline].instrumented_shader_module)
    /\ driver_library_pipelines' =
            driver_library_pipelines \ {pipelines[pipeline].pre_raster_lib,
                                        pipelines[pipeline].frag_out_lib}
    /\ pipelines' = [pipelines EXCEPT ![pipeline] = NoPipeline]
    /\ UNCHANGED <<lockVars, deferred_operation_post_check, cache_log, driver_objects, gpuav_settings, phase, coreVars, selected_instrumented_shaders,
                   instrumented_shaders_cache_, unique_shader_module_id_, shader_objects>>

\* the intercepted entry point returns to the application
Return ==
    /\ call.stage = "post" \/ (call.stage = "pre" /\ ~dispatch_registered)
    /\ call' = IdleCall
    /\ UNCHANGED <<lockVars, deferred_operation_post_check, driver_shader_modules, driver_library_pipelines, cache_log, driver_objects, gpuav_settings, phase, coreVars, selected_instrumented_shaders,
                   instrumented_shaders_cache_, instrumented_shaders_map_,
                   unique_shader_module_id_, shader_objects, pipelines>>

(* ---------------------------- shader modules -------------------------- *)
\* modules the application picks are remembered for pipeline creation
PostCallRecordCreateShaderModule(pShaderModule, pNext) ==
    /\ Intercepting
    /\ selected_instrumented_shaders' =
            IF gpuav_settings.select_instrumented_shaders
                    /\ IsSelectiveInstrumentationEnabled(pNext)
            THEN selected_instrumented_shaders \cup {pShaderModule}
            ELSE selected_instrumented_shaders
    /\ call' = [op |-> "CreateShaderModule", stage |-> "post",
                pShaderModule |-> pShaderModule, pNext |-> pNext]
    /\ UNCHANGED <<lockVars, deferred_operation_post_check, driver_shader_modules, driver_library_pipelines, cache_log, driver_objects, gpuav_settings, phase, coreVars, instrumented_shaders_cache_,
                   instrumented_shaders_map_, unique_shader_module_id_, shader_objects,
                   pipelines>>

(* --------------------------- specification ---------------------------- *)
AlivePipelines == {p \in PipelineHandles : pipelines[p].alive}

InitWith(settings) ==
    /\ gpuav_settings \in settings
    /\ phase = "constructed"
    /\ aborted_ = FALSE
    /\ dispatch_registered = TRUE
    /\ instrumentation_desc_set_bind_index_ = 0
    /\ instrumentation_desc_layout_ = VK_NULL_HANDLE
    /\ dummy_desc_layout_ = VK_NULL_HANDLE
    /\ instrumentation_pipeline_layout_ = VK_NULL_HANDLE
    /\ selected_instrumented_shaders = {}
    /\ instrumented_shaders_cache_ = {}
    /\ instrumented_shaders_map_ = {}
    /\ unique_shader_module_id_ = 1
    /\ shader_objects = {}
    /\ pipelines = [p \in PipelineHandles |-> NoPipeline]
    /\ call = IdleCall
    /\ cache_log = <<>>
    /\ driver_objects = [h \in InternalHandles |-> [created |-> 0, destroyed |-> 0]]
    /\ driver_shader_modules = {}
    /\ driver_library_pipelines = {}
    /\ deferred_operation_post_check = [d \in DeferredOperations |-> NotFound]
    /\ global_settings = [fine_grained_locking |-> FALSE]
    /\ guards = [t \in Threads |-> NoGuard]
    /\ hooks = [t \in Threads |-> IdleHook]

Init == InitWith(SettingsDomain)

Next ==
    \/ \E d \in Devices : PostCreateDevice(d)
    \/ PreCallRecordDestroyDevice
    \/ Intercepting /\ \E ci \in PipelineLayoutCreateInfos : PreCallRecordCreatePipelineLayout(ci)
    \/ \E ok \in BOOLEAN : PostCallRecordCreatePipelineLayout(ok)
    \/ Intercepting /\ \E m \in ShaderModuleHandles, x \in PNexts :
            PostCallRecordCreateShaderModule(m, x)
    \/ Intercepting /\ \E b \in ShaderBatches : \E env \in ShaderObjectEnvsOf(b) :
            PreCallRecordCreateShadersEXT(b, env)
    \/ call.op = "CreateShadersEXT" /\ PostCallRecordCreateShadersEXT(
            FreshHandles(ShaderObjectPool, shader_objects, Len(call.pCreateInfos)))
    \/ Intercepting /\ \E s \in ShaderObjectHandles : PreCallRecordDestroyShaderEXT(s)
    \/ Intercepting /\ \E b \in GraphicsBatches :
            PreCallRecordCreateGraphicsPipelines(b, EnvOk)
    \/ Intercepting /\ \E b \in ComputeBatches : \E env \in PipelineEnvsOf(b) :
            PreCallRecordCreateComputePipelines(b, env)
    \/ Intercepting /\ \E b \in RayTracingNVBatches :
            PreCallRecordCreateRayTracingPipelinesNV(b, EnvOk)
    \/ Intercepting /\ \E b \in RayTracingKHRBatches :
            PreCallRecordCreateRayTracingPipelinesKHR(b, EnvOk)
    \/ call.op = "Graphics" /\ PostCallRecordCreateGraphicsPipelines(
            FreshHandles(PipelinePool, AlivePipelines, Len(call.pCreateInfos)))
    \/ call.op = "Compute" /\ PostCallRecordCreateComputePipelines(
            FreshHandles(PipelinePool, AlivePipelines, Len(call.pCreateInfos)))
    \/ call.op = "RayTracingNV" /\ PostCallRecordCreateRayTracingPipelinesNV(
            FreshHandles(PipelinePool, AlivePipelines, Len(call.pCreateInfos)))
    \/ call.op = "RayTracingKHR" /\ PostCallRecordCreateRayTracingPipelinesKHR(
            VK_NULL_HANDLE, "VK_SUCCESS", TRUE,
            FreshHandles(PipelinePool, AlivePipelines, Len(call.pCreateInfos)))
    \/ Intercepting /\ \E p \in PipelineHandles : PreCallRecordDestroyPipeline(p)
    \/ Return

Spec == Init /\ [][Next]_vars

(* ----------------- stand-alone SpirvCache specification --------------- *)
\* Add calls made on the cache under test
MaxAdds == 3
CacheHashes == 0..MaxHash
CacheSpirvs == {<<MagicNumber, body>> : body \in 0..MaxHash}

\* SpirvCache::Add called directly
Add(hash, spirv) ==
    /\ Len(cache_log) < MaxAdds
    /\ instrumented_shaders_cache_' = SpirvCacheAdd(instrumented_shaders_cache_, hash, spirv)
    /\ cache_log' = Append(cache_log, [hash |-> hash, spirv |-> spirv])
    /\ call' = [op |-> "Add", stage |-> "post", hash |-> hash, spirv |-> spirv]
    /\ UNCHANGED <<lockVars, deferred_operation_post_check, driver_shader_modules, driver_library_pipelines, driver_objects, gpuav_settings, phase, coreVars,
                   selected_instrumented_shaders, instrumented_shaders_map_,
                   unique_shader_module_id_, shader_objects, pipelines>>

\* SpirvCache::Get called directly; the call record keeps what it returned
Get(spirv_hash) ==
    /\ call' = [op |-> "Get", stage |-> "post", hash |-> spirv_hash,
                result |-> SpirvCacheGet(instrumented_shaders_cache_, spirv_hash)]
    /\ UNCHANGED <<lockVars, deferred_operation_post_check, driver_shader_modules, driver_library_pipelines, cache_log, driver_objects, gpuav_settings, phase, coreVars, selected_instrumented_shaders,
                   instrumented_shaders_cache_, instrumented_shaders_map_,
                   unique_shader_module_id_, shader_objects, pipelines>>

InitCache ==
    /\ Init
    /\ IsSpirvModified(gpuav_settings)
    /\ gpuav_settings.cache_instrumented_shaders

NextCache ==
    \/ \E h \in CacheHashes, w \in CacheSpirvs : Add(h, w)
    \/ \E h \in CacheHashes : Get(h)

SpecCache == InitCache /\ [][NextCache]_vars

(* --------------------- device set-up specification -------------------- *)
\* limits a device may report: none, one, a few, the adjusted maximum and above
DeviceSetLimits == (0..MaxBoundSets) \cup {kMaxAdjustedBoundDescriptorSet,
                                           kMaxAdjustedBoundDescriptorSet + 1}

\* any mix of missing features, limit and failing create call
AllDevices ==
    [fragmentStoresAndAtomics : BOOLEAN,
     vertexPipelineStoresAndAtomics : BOOLEAN,
     maxBoundDescriptorSets : DeviceSetLimits,
     failing_create : {0, 1, 2, 3}]

NextDevice ==
    \/ \E limit \in DeviceSetLimits, reserve \in BOOLEAN :
            PostCallRecordGetPhysicalDeviceProperties(limit, reserve)
    \/ \E d \in AllDevices : PostCreateDevice(d)
    \/ PreCallRecordDestroyDevice
    \/ Return

SpecDevice == Init /\ [][NextDevice]_vars

(* -------------- stand-alone InstrumentShader specification ------------ *)
\* settings that matter to InstrumentShader
InstrumentSettings ==
    {st \in [shader_instrumentation : SUBSET {"bindless_descriptor", "ray_query"},
             debug_printf_enabled : BOOLEAN,
             debug_printf_only : BOOLEAN,
             debug_validate_instrumented_shaders : BOOLEAN,
             debug_dump_instrumented_shaders : BOOLEAN,
             cache_instrumented_shaders : BOOLEAN,
             select_instrumented_shaders : {FALSE}] :
        \* only DebugPrintf is on
        st.debug_printf_only
            <=> (st.debug_printf_enabled /\ st.shader_instrumentation = {})}

\* words the OOB-buffer, ray-query and DebugPrintf passes change
W3 == <<MagicNumber, 3>>
W4 == <<MagicNumber, 4>>
W5 == <<MagicNumber, 5>>

InstrumentInputs == {W1, W2, W3, W4, W5, WPlain, WNotSpirv}
InstrumentEnvs == {EnvOk, [EnvOk EXCEPT !.validator_ok = FALSE], [EnvOk EXCEPT !.dce_ok = FALSE]}

\* a device that passes every check of PostCreateDevice
SupportedDevice ==
    [fragmentStoresAndAtomics |-> TRUE, vertexPipelineStoresAndAtomics |-> TRUE,
     maxBoundDescriptorSets |-> MaxBoundSets, failing_create |-> 0]

\* InstrumentShader called on its own; the call record keeps what it returned
InstrumentShaderCall(input_spirv, unique_shader_id, has_bindless_descriptors, env) ==
    /\ Intercepting
    /\ LET res == InstrumentShader(input_spirv, unique_shader_id, has_bindless_descriptors,
                                   env, gpuav_settings, instrumentation_desc_set_bind_index_)
       IN  /\ call' = [op |-> "InstrumentShader", stage |-> "post",
                       input_spirv |-> input_spirv, unique_shader_id |-> unique_shader_id,
                       env |-> env, result |-> res, errors |-> IF res.error THEN 1 ELSE 0]
           /\ IF res.error THEN InternalError
              ELSE UNCHANGED <<aborted_, dispatch_registered>>
    /\ UNCHANGED <<lockVars, deferred_operation_post_check, driver_shader_modules, driver_library_pipelines, cache_log, driver_objects, gpuav_settings, phase, instrumentation_desc_set_bind_index_,
                   instrumentation_desc_layout_, dummy_desc_layout_,
                   instrumentation_pipeline_layout_, selected_instrumented_shaders,
                   instrumented_shaders_cache_, instrumented_shaders_map_,
                   unique_shader_module_id_, shader_objects, pipelines>>

InitInstrument == InitWith(InstrumentSettings)

\* the callers of InstrumentShader: one shader object, one compute pipeline
InstrumentShaderBatches == {<<ShaderCreateInfo(w, 0, None)>> : w \in {W1, WPlain, WNotSpirv}}

InstrumentComputeBatches ==
    {<<PipelineState("Compute", FALSE, <<>>, {}, <<s>>)>> :
        s \in {ByHandle("compute", "M1"), Inlined("compute", None)}}

NextInstrument ==
    \/ PostCreateDevice(SupportedDevice)
    \/ \E w \in InstrumentInputs, id \in 1..MaxUniqueId, b \in BOOLEAN, env \in InstrumentEnvs :
            InstrumentShaderCall(w, id, b, env)
    \/ \E b \in InstrumentShaderBatches, env \in InstrumentEnvs :
            PreCallRecordCreateShadersEXT(b, env)
    \/ call.op = "CreateShadersEXT" /\ PostCallRecordCreateShadersEXT(
            FreshHandles(ShaderObjectPool, shader_objects, Len(call.pCreateInfos)))
    \/ \E b \in InstrumentComputeBatches, env \in InstrumentEnvs :
            PreCallRecordCreateComputePipelines(b, env)
    \/ call.op = "Compute" /\ PostCallRecordCreateComputePipelines(
            FreshHandles(PipelinePool, AlivePipelines, Len(call.pCreateInfos)))
    \/ Return

SpecInstrument == InitInstrument /\ [][NextInstrument]_vars

(* ---------------- selective instrumentation specification ------------ *)
\* rewriting is on; the application may ask to pick the shaders itself
SelectSettings ==
    [shader_instrumentation : {{"bindless_descriptor"}},
     debug_printf_enabled : {FALSE},
     debug_printf_only : {FALSE},
     debug_validate_instrumented_shaders : {FALSE},
     debug_dump_instrumented_shaders : {FALSE},
     cache_instrumented_shaders : {TRUE},
     select_instrumented_shaders : BOOLEAN]

\* pNext chains with and without VkValidationFeaturesEXT enabling GPU-AV
SelectPNexts == {None, "gpu_assisted"}

\* a stage with a module handle whose pNext chain also holds a
\* VkShaderModuleCreateInfo
HandleAndInlined(stage, m, x) ==
    [stage |-> stage, module |-> m, sm_ci |-> [present |-> TRUE, code |-> W2, pNext |-> x]]

SelectStageInfos(stage) ==
    {ByHandle(stage, m) : m \in ShaderModuleHandles}
        \cup {Inlined(stage, x) : x \in SelectPNexts}
        \cup {HandleAndInlined(stage, "M1", x) : x \in SelectPNexts}

SelectComputeBatches ==
    {<<PipelineState("Compute", FALSE, <<>>, {}, <<s>>)>> : s \in SelectStageInfos("compute")}

SelectGraphicsBatches ==
    {<<PipelineState("Graphics", FALSE, <<>>, {},
                     <<ByHandle("vertex", "M1"), Inlined("fragment", x)>>)>> : x \in SelectPNexts}

SelectShaderBatches == {<<ShaderCreateInfo(W1, 0, x)>> : x \in SelectPNexts}

\* a failed vkCreateShaderModule leaves a null handle in *pShaderModule
CreatedShaderModules == ShaderModuleHandles \cup {VK_NULL_HANDLE}

InitSelect == InitWith(SelectSettings)

NextSelect ==
    \/ PostCreateDevice(SupportedDevice)
    \/ \E m \in CreatedShaderModules, x \in SelectPNexts : PostCallRecordCreateShaderModule(m, x)
    \/ \E b \in SelectShaderBatches : PreCallRecordCreateShadersEXT(b, EnvOk)
    \/ call.op = "CreateShadersEXT" /\ PostCallRecordCreateShadersEXT(
            FreshHandles(ShaderObjectPool, shader_objects, Len(call.pCreateInfos)))
    \/ \E s \in ShaderObjectHandles : PreCallRecordDestroyShaderEXT(s)
    \/ \E b \in SelectGraphicsBatches : PreCallRecordCreateGraphicsPipelines(b, EnvOk)
    \/ \E b \in SelectComputeBatches : PreCallRecordCreateComputePipelines(b, EnvOk)
    \/ call.op = "Graphics" /\ PostCallRecordCreateGraphicsPipelines(
            FreshHandles(PipelinePool, AlivePipelines, Len(call.pCreateInfos)))
    \/ call.op = "Compute" /\ PostCallRecordCreateComputePipelines(
            FreshHandles(PipelinePool, AlivePipelines, Len(call.pCreateInfos)))
    \/ \E p \in PipelineHandles : PreCallRecordDestroyPipeline(p)
    \/ Return

SpecSelect == InitSelect /\ [][NextSelect]_vars

(* ------------------------------ properties ---------------------------- *)
PipelineKinds == {"Graphics", "Compute", "RayTracingNV", "RayTracingKHR"}

\* the array has the shape of an adapted layout over the caller's n layouts
IsAdaptedLayout(pSetLayouts, setLayoutCount, caller, n) ==
    /\ setLayoutCount = instrumentation_desc_set_bind_index_ + 1
    /\ Len(pSetLayouts) = instrumentation_desc_set_bind_index_ + 1
    /\ \A i \in 1..n : pSetLayouts[i] = caller[i]
    /\ \A i \in (n + 1)..instrumentation_desc_set_bind_index_ :
            pSetLayouts[i] = dummy_desc_layout_
    /\ pSetLayouts[instrumentation_desc_set_bind_index_ + 1] = instrumentation_desc_layout_
    /\ dummy_desc_layout_ = DummyDescLayoutHandle
    /\ instrumentation_desc_layout_ = InstrumentationDescLayoutHandle

OverflowingPipelinesUntouched ==
    call.op \in PipelineKinds
        => \A i \in 1..Len(call.pCreateInfos) :
              Len(call.pipeline_states[i].set_layouts) > instrumentation_desc_set_bind_index_
                => /\ call.modified_create_infos[i] = call.pCreateInfos[i]
                   /\ call.shader_instrumentations_metadata[i] = <<>>

C4_ShaderObjectOverflow ==
    (IsSpirvModified(gpuav_settings) /\ call.op = "CreateShadersEXT")
    => \A i \in 1..Len(call.pCreateInfos) :
          IF call.pCreateInfos[i].setLayoutCount > instrumentation_desc_set_bind_index_
          THEN /\ call.modified_create_infos[i].pCode = call.pCreateInfos[i].pCode
               /\ call.modified_create_infos[i].pSetLayouts = call.pCreateInfos[i].pSetLayouts
               /\ call.modified_create_infos[i].setLayoutCount =
                      call.pCreateInfos[i].setLayoutCount
               /\ call.warnings[i] = 1
               /\ call.stage = "post"
                    => ~\E r \in instrumented_shaders_map_ : r.shader_object = call.pShaders[i]
          ELSE IsAdaptedLayout(call.modified_create_infos[i].pSetLayouts,
                               call.modified_create_infos[i].setLayoutCount,
                               call.pCreateInfos[i].pSetLayouts,
                               call.pCreateInfos[i].setLayoutCount)

\* C5: a graphics, compute or ray-tracing pipeline whose layout has more sets
\* than the reserved slot gets no stage binary substituted in the side copy, no
\* replacement shader module, and no registry record
C5_PipelineSkipOnOverflow ==
    (IsSpirvModified(gpuav_settings) /\ call.op \in PipelineKinds)
    => \A i \in 1..Len(call.pCreateInfos) :
          Len(call.pipeline_states[i].set_layouts) > instrumentation_desc_set_bind_index_
            => /\ call.modified_create_infos[i] = call.pCreateInfos[i]
               /\ call.pipeline_states[i].instrumented_shader_module = <<>>
               /\ call.stage = "post"
                    => /\ ~\E r \in instrumented_shaders_map_ : r.pipeline = call.pPipelines[i]
                       /\ pipelines[call.pPipelines[i]].instrumented_shader_module = <<>>
                       /\ ~pipelines[call.pPipelines[i]].was_instrumented

\* a pipeline over an instrumentable module and an overflowing layout was created
C5_Witness ==
    /\ IsSpirvModified(gpuav_settings)
    /\ call.op \in PipelineKinds
    /\ call.stage = "post"
    /\ Len(call.pipeline_states[1].set_layouts) > instrumentation_desc_set_bind_index_
    /\ call.pipeline_states[1].active_slots = {}
    /\ call.pipeline_states[1].stage_states # <<>>
    /\ call.pipeline_states[1].stage_states[1].module_state.words = W1

\* the settings enable no rewriting pass
NoRewritingEnabled ==
    gpuav_settings.shader_instrumentation = {} /\ ~gpuav_settings.debug_printf_enabled

\* C6: with IsSpirvModified() false every creation entry point hands the driver
\* the set-layout array, count and per-stage SPIR-V it received, and neither the
\* cache nor the registry changes
C6_PassThroughOnDisabled ==
    NoRewritingEnabled =>
        /\ call.op = "CreatePipelineLayout" => call.modified_create_info = call.pCreateInfo
        /\ call.op = "CreateShadersEXT" => call.modified_create_infos = call.pCreateInfos
        /\ call.op \in PipelineKinds => call.modified_create_infos = call.pCreateInfos
        /\ instrumented_shaders_cache_ = {}
        /\ instrumented_shaders_map_ = {}
        /\ unique_shader_module_id_ = 1

\* with rewriting disabled, a pipeline over an instrumentable module was created
C6_Witness ==
    /\ NoRewritingEnabled
    /\ call.op = "Graphics"
    /\ call.stage = "post"
    /\ call.pipeline_states[1].stage_states # <<>>
    /\ call.pipeline_states[1].stage_states[1].module_state.words = W1
    /\ \E p \in PipelineHandles : pipelines[p].alive
    /\ shader_objects # {}

\* C7 as stated: every live pipeline returned with an instrumented stage has,
\* for each instrumented stage, a registry record whose pipeline is that
\* pipeline, whatever other pipelines are created or destroyed
C7_LivePipelineHasRecords ==
    \A p \in PipelineHandles :
        pipelines[p].alive
            => \A id \in pipelines[p].instrumented_ids :
                  \E r \in instrumented_shaders_map_ : r.id = id /\ r.pipeline = p

\* C8: the sweep of PreCallRecordDestroyPipeline(P) leaves no record with
\* pipeline P, that of PreCallRecordDestroyShaderEXT(S) none with shader object
\* S, and both leave every other record as it was
C8_DestroySweeps ==
    [][/\ (call.op = "idle" /\ call'.op = "DestroyPipeline")
            => instrumented_shaders_map_' =
                   {r \in instrumented_shaders_map_ : r.pipeline # call'.pipeline}
       /\ (call.op = "idle" /\ call'.op = "DestroyShaderEXT")
            => instrumented_shaders_map_' =
                   {r \in instrumented_shaders_map_ : r.shader_object # call'.shader}]_vars

\* a pipeline's records were swept while another object's record stayed
C8_Witness ==
    /\ call.op = "DestroyPipeline"
    /\ call.erased # {}
    /\ instrumented_shaders_map_ # {}

\* SPIR-V the application passes in
ApplicationSpirv == {W1, W2, WPlain, WNotSpirv}

\* C9 as stated: every registry record stores as original_words the
\* application's original, non-instrumented SPIR-V of its shader
C9_OriginalWordsKept ==
    /\ \A r \in instrumented_shaders_map_ : r.original_words \in ApplicationSpirv
    /\ (call.op = "CreateShadersEXT" /\ call.stage = "post")
        => \A i \in 1..Len(call.pShaders) :
              \A r \in instrumented_shaders_map_ :
                  r.shader_object = call.pShaders[i]
                    => r.original_words = call.pCreateInfos[i].pCode

HasAdd(hash) == \E i \in 1..Len(cache_log) : cache_log[i].hash = hash

FirstAdd(hash) ==
    cache_log[CHOOSE i \in 1..Len(cache_log) :
                /\ cache_log[i].hash = hash
                /\ \A j \in 1..(i - 1) : cache_log[j].hash # hash].spirv

\* C10: after any sequence of Add and Get calls, Get(h) returns nothing if no
\* Add(h, ...) was made and else the words of the first Add(h, ...); a later Add
\* of the same fingerprint replaces nothing and no entry is removed
C10_FirstWriterWins ==
    /\ \A h \in CacheHashes :
          LET spirv == SpirvCacheGet(instrumented_shaders_cache_, h)
          IN  IF HasAdd(h) THEN spirv.found /\ spirv.spirv = FirstAdd(h)
              ELSE ~spirv.found
    /\ call.op = "Get"
        => IF HasAdd(call.hash)
           THEN call.result.found /\ call.result.spirv = FirstAdd(call.hash)
           ELSE ~call.result.found

\* a Get after two Adds of one fingerprint with different words
C10_Witness ==
    /\ call.op = "Get"
    /\ call.result.found
    /\ \E i, j \in 1..Len(cache_log) :
          /\ i < j
          /\ cache_log[i].hash = call.hash
          /\ cache_log[j].hash = call.hash
          /\ cache_log[i].spirv # cache_log[j].spirv

\* kinds of intercepted creation calls that instrument shaders
ShaderCreationOps == PipelineKinds \cup {"CreateShadersEXT"}

\* the code the driver gets for stage s of create-info i of pipeline call c:
\* the inlined words, or the words of the replacement module
StageCode(c, i, s) ==
    LET st == c.modified_create_infos[i].pStages[s]
        made == {k \in 1..Len(c.created_shader_modules) :
                    c.created_shader_modules[k].handle = st.module}
    IN  IF st.sm_ci.present THEN st.sm_ci.code
        ELSE IF made # {} THEN c.created_shader_modules[CHOOSE k \in made : TRUE].pCode
        ELSE <<>>

\* [words, code]: the input words of each instrumented shader of call c and the
\* code the driver gets in their place
Substitutions(c) ==
    IF c.op = "CreateShadersEXT"
    THEN {[words |-> c.pCreateInfos[i].pCode, code |-> c.modified_create_infos[i].pCode] :
            i \in {j \in 1..Len(c.instrumentations_data) :
                        IsInstrumented(c.instrumentations_data[j])}}
    ELSE UNION {{[words |-> c.pipeline_states[i].stage_states[s].module_state.words,
                  code |-> StageCode(c, i, s)] :
                    s \in {t \in 1..Len(c.shader_instrumentations_metadata[i]) :
                                IsInstrumented(c.shader_instrumentations_metadata[i][t])}} :
                i \in 1..Len(c.shader_instrumentations_metadata)}

\* the InstrumentShader calls of call c that ran the passes over words w
PassRuns(c, w) ==
    {k \in 1..Len(c.instrument_calls) :
        c.instrument_calls[k].words = w /\ c.instrument_calls[k].result.ran}

\* C11: with cache_instrumented_shaders on, a creation call (pipeline or
\* shader-object path) that instruments words w runs the passes over w exactly
\* once if no earlier call cached w, storing in the cache the words it hands the
\* driver; if an earlier call cached w it takes the cache-hit branch, makes no
\* InstrumentShader call for w and hands the driver the words the earlier call
\* stored; entries of the cache are never replaced
C11_CacheIdempotence ==
    [][(/\ gpuav_settings.cache_instrumented_shaders
        /\ call.stage = "idle"
        /\ call'.stage = "pre"
        /\ call'.op \in ShaderCreationOps
        /\ call'.errors = 0)
       => /\ instrumented_shaders_cache_ \subseteq instrumented_shaders_cache_'
          /\ \A sub \in Substitutions(call') :
                LET hits == {e \in instrumented_shaders_cache_ :
                                e.hash = ShaderHash(sub.words)}
                IN  IF hits # {}
                    THEN /\ PassRuns(call', sub.words) = {}
                         /\ \A k \in 1..Len(call'.instrument_calls) :
                                call'.instrument_calls[k].words # sub.words
                         /\ \A e \in hits : sub.code = e.spirv
                    ELSE /\ Cardinality(PassRuns(call', sub.words)) = 1
                         /\ \E e \in instrumented_shaders_cache_' :
                                e.hash = ShaderHash(sub.words) /\ e.spirv = sub.code]_vars

\* a pipeline stage was instrumented from the cache while a shader object is
\* alive: an earlier call stored the words, this call made no InstrumentShader
\* call and handed the driver the stored words
C11_Witness ==
    /\ gpuav_settings.cache_instrumented_shaders
    /\ call.op \in PipelineKinds
    /\ call.stage = "pre"
    /\ call.instrument_calls = <<>>
    /\ Substitutions(call) # {}
    /\ \A sub \in Substitutions(call) :
          \E e \in instrumented_shaders_cache_ :
              e.hash = ShaderHash(sub.words) /\ e.spirv = sub.code
    /\ shader_objects # {}

\* C12: InstrumentShader called with input whose first word is not the SPIR-V
\* magic number returns false before any other step: no dump file is written,
\* no pass runs, out_instrumented_spirv is untouched and InternalError is not
\* called, so the core is not aborted
C12_MagicNumberGuard ==
    (call.op = "InstrumentShader" /\ call.input_spirv[1] # MagicNumber)
    => /\ ~call.result.pass
       /\ call.result.dumps = <<>>
       /\ ~call.result.ran
       /\ call.result.out = <<>>
       /\ call.errors = 0
       /\ ~aborted_
       /\ dispatch_registered

\* words without the magic number were handed to InstrumentShader with the
\* dumps and a pass that would rewrite their body enabled
C12_Witness ==
    /\ call.op = "InstrumentShader"
    /\ call.input_spirv = WNotSpirv
    /\ gpuav_settings.debug_dump_instrumented_shaders
    /\ "bindless_descriptor" \in gpuav_settings.shader_instrumentation
    /\ RunPass("bindless_descriptor", call.input_spirv)

\* the words whose re-validation or dead-code elimination failed in call c
FailedWords(c) ==
    {c.instrument_calls[k].words :
        k \in {j \in 1..Len(c.instrument_calls) : c.instrument_calls[j].result.error}}

\* the driver gets the application's binary for every shader of call c over
\* words in failed
OriginalBinaryUsed(c, failed) ==
    IF c.op = "CreateShadersEXT"
    THEN \A i \in 1..Len(c.pCreateInfos) :
            c.pCreateInfos[i].pCode \in failed
                => c.modified_create_infos[i].pCode = c.pCreateInfos[i].pCode
    ELSE \A i \in 1..Len(c.pCreateInfos) :
            \A t \in 1..Len(c.pipeline_states[i].stage_states) :
                c.pipeline_states[i].stage_states[t].module_state.words \in failed
                    => c.modified_create_infos[i].pStages[t] = c.pCreateInfos[i].pStages[t]

\* C13 as stated: when re-validation or dead-code elimination of one shader
\* fails, the failure is reported as an internal error, the original binary is
\* used for that shader, and the core stays live: it is not aborted and stays
\* registered, so the shaders of later creation calls are still intercepted
C13_RewriterFailureKeepsCoreLive ==
    (call.op \in ShaderCreationOps /\ FailedWords(call) # {})
    => /\ call.errors >= 1
       /\ OriginalBinaryUsed(call, FailedWords(call))
       /\ ~aborted_
       /\ dispatch_registered

\* the part of C13 the program keeps: the failure is reported and the original
\* binary is used
RewriterFailureReported ==
    (call.op \in ShaderCreationOps /\ FailedWords(call) # {})
    => /\ call.errors >= 1
       /\ OriginalBinaryUsed(call, FailedWords(call))

\* InternalError calls made so far by the call in flight
ErrorsOf(c) == IF "errors" \in DOMAIN c THEN c.errors ELSE 0

\* C14: the aborted state is terminal: a step in which an operation calls
\* InternalError ends with aborted_ true and the per-device dispatch
\* registration released, and no later step sets aborted_ back to false or
\* registers the core again
C14_AbortedIsTerminal ==
    [][/\ ErrorsOf(call') > 0 => (aborted_' /\ ~dispatch_registered')
       /\ aborted_ => (aborted_' /\ ~dispatch_registered')
       /\ ~dispatch_registered => ~dispatch_registered']_vars

\* the core was aborted after a successful initialisation, and the call that
\* aborted it has returned
C14_Witness ==
    /\ aborted_
    /\ ~dispatch_registered
    /\ phase = "live"
    /\ call.stage = "idle"
    /\ instrumentation_desc_layout_ # VK_NULL_HANDLE

\* C15: PostCreateDevice on a device that lacks fragmentStoresAndAtomics, lacks
\* vertexPipelineStoresAndAtomics, or whose adjusted descriptor-set limit is 1
\* reports exactly one internal error, that of the first failing check in that
\* order, creates none of the three internal layouts, and ends aborted
C15_UnsupportedDevice ==
    (/\ call.op = "CreateDevice"
     /\ \/ ~call.device.fragmentStoresAndAtomics
        \/ ~call.device.vertexPipelineStoresAndAtomics
        \/ Min(kMaxAdjustedBoundDescriptorSet, call.device.maxBoundDescriptorSets) = 1)
    => /\ call.errors = 1
       /\ call.error =
              IF ~call.device.fragmentStoresAndAtomics THEN "fragmentStoresAndAtomics"
              ELSE IF ~call.device.vertexPipelineStoresAndAtomics
              THEN "vertexPipelineStoresAndAtomics"
              ELSE "single descriptor set"
       /\ instrumentation_desc_layout_ = VK_NULL_HANDLE
       /\ dummy_desc_layout_ = VK_NULL_HANDLE
       /\ instrumentation_pipeline_layout_ = VK_NULL_HANDLE
       /\ \A h \in InternalHandles : driver_objects[h].created = 0
       /\ aborted_
       /\ ~dispatch_registered

\* a device that fails the second and the third check went through PostCreateDevice
C15_Witness ==
    /\ call.op = "CreateDevice"
    /\ call.device.fragmentStoresAndAtomics
    /\ ~call.device.vertexPipelineStoresAndAtomics
    /\ call.device.maxBoundDescriptorSets = 1
    /\ call.error = "vertexPipelineStoresAndAtomics"
    /\ aborted_

\* every internal object the driver created has been destroyed
ObjectsCleanedUp ==
    \A h \in InternalHandles : driver_objects[h].destroyed = driver_objects[h].created

LayoutsReset ==
    /\ instrumentation_desc_layout_ = VK_NULL_HANDLE
    /\ dummy_desc_layout_ = VK_NULL_HANDLE
    /\ instrumentation_pipeline_layout_ = VK_NULL_HANDLE

\* the driver refused one of the three internal objects of PostCreateDevice
InternalCreateFailed ==
    /\ call.op = "CreateDevice"
    /\ call.error \in {"internal descriptor set", "internal dummy descriptor set",
                       "internal pipeline layout"}

\* the part of C16 about initialization and the pre-destroy hook: a refused
\* internal object is reported, the objects created so far are destroyed and
\* their handles reset, the core is aborted; no object is destroyed twice, and
\* none is left once the device is destroyed
InitFailureCleansUp ==
    /\ InternalCreateFailed
        => (call.errors = 1 /\ LayoutsReset /\ ObjectsCleanedUp /\ aborted_)
    /\ \A h \in InternalHandles : driver_objects[h].destroyed <= driver_objects[h].created
    /\ phase = "destroyed" => (LayoutsReset /\ ObjectsCleanedUp)

\* C16 as stated: whenever the driver refuses the instrumentation set layout,
\* the dummy set layout, the adapter pipeline layout or a replacement shader
\* module, the failure is reported, every internal layout created so far is
\* destroyed and its handle reset to null, and the core is aborted; over any
\* failed initialization followed by the pre-destroy hook each created internal
\* layout is destroyed exactly once
C16_CreationFailureCleansUp ==
    /\ InitFailureCleansUp
    /\ (call.op \in PipelineKinds /\ call.module_errors > 0)
        => (call.errors >= 1 /\ LayoutsReset /\ ObjectsCleanedUp /\ aborted_)

\* PostCreateDevice made every check and every create call succeed
InitializedDevice == call.op = "CreateDevice" /\ call.errors = 0

\* C17 as stated: for every maxBoundDescriptorSets of the device, 0 and 1
\* included, after successful initialization the reserved slot index equals
\* min(kMaxAdjustedBoundDescriptorSet, maxBoundDescriptorSets) - 1 without
\* wrap-around, and is strictly less than the maximum set count reported to the
\* application once ReserveBindingSlot has applied the reservation adjustment
C17_ReservedSlotBelowLimit ==
    InitializedDevice
    => /\ instrumentation_desc_set_bind_index_ =
              Min(kMaxAdjustedBoundDescriptorSet, call.device.maxBoundDescriptorSets) - 1
       /\ \A reserve \in BOOLEAN :
              instrumentation_desc_set_bind_index_ <
                  ReserveBindingSlot(call.device.maxBoundDescriptorSets,
                                     reserve).maxBoundDescriptorSets

\* what holds of the reserved slot: on a device with at least one set the index
\* is min(kMaxAdjustedBoundDescriptorSet, maxBoundDescriptorSets) - 1 and below
\* the device's own limit
ReservedSlotOnNonEmptyDevice ==
    (InitializedDevice /\ call.device.maxBoundDescriptorSets > 0)
    => /\ instrumentation_desc_set_bind_index_ =
              Min(kMaxAdjustedBoundDescriptorSet, call.device.maxBoundDescriptorSets) - 1
       /\ instrumentation_desc_set_bind_index_ < call.device.maxBoundDescriptorSets

\* the conditions under which a pipeline needs its shaders instrumented
NeedsInstrumentation(pipeline_state) ==
    /\ pipeline_state.stage_states # <<>>
    /\ ~pipeline_state.create_flags_library
    /\ instrumentation_desc_set_bind_index_ \notin pipeline_state.active_slots
    /\ Len(pipeline_state.set_layouts) <= instrumentation_desc_set_bind_index_

\* C18: NeedPipelineCreationShaderInstrumentation returns true exactly for a
\* pipeline with at least one stage, without the library create flag, whose
\* active slots do not contain the reserved slot and whose layout has at most
\* reserved-slot many sets; for a library fragment the driver gets the caller's
\* create-info, the rewriter is not run and the created fragment has no
\* registry record
C18_NeedsInstrumentation ==
    (call.op \in PipelineKinds /\ IsSpirvModified(gpuav_settings))
    => \A i \in 1..Len(call.pipeline_states) :
          /\ call.need[i] <=> NeedsInstrumentation(call.pipeline_states[i])
          /\ call.pipeline_states[i].create_flags_library
                => /\ call.modified_create_infos[i] = call.pCreateInfos[i]
                   /\ call.shader_instrumentations_metadata[i] = <<>>
                   /\ call.pipeline_states[i].instrumented_shader_module = <<>>
                   /\ Len(call.pipeline_states) = 1
                        => call.instrument_calls = <<>> /\ call.created_shader_modules = <<>>
                   /\ call.stage = "post"
                        => ~\E r \in instrumented_shaders_map_ :
                                r.pipeline = call.pPipelines[i]

\* a library fragment with a stage over an instrumentable module was created
\* with rewriting enabled
C18_Witness ==
    /\ call.op = "Graphics"
    /\ call.stage = "post"
    /\ IsSpirvModified(gpuav_settings)
    /\ call.pipeline_states[1].create_flags_library
    /\ call.pipeline_states[1].stage_states # <<>>
    /\ call.pipeline_states[1].stage_states[1].module_state.words = W1
    /\ Len(call.pipeline_states[1].set_layouts) <= instrumentation_desc_set_bind_index_

\* a pipeline without stages was created with rewriting enabled
NoStagePipelineCreated ==
    /\ call.op = "Graphics"
    /\ call.stage = "post"
    /\ IsSpirvModified(gpuav_settings)
    /\ call.pipeline_states[1].stage_states = <<>>
    /\ ~call.pipeline_states[1].create_flags_library

\* the caller's stage create-info of stage s of create-info i
CallerStage(c, i, s) == c.pipeline_states[i].stage_states[s].pipeline_create_info

\* the nested module descriptor carries the flag, or the module handle was
\* put in the selected set when the module was created
PickedByApplication(info) ==
    \/ info.sm_ci.present /\ IsSelectiveInstrumentationEnabled(info.sm_ci.pNext)
    \/ info.module \in selected_instrumented_shaders

\* SPIR-V an enabled pass changes
Instrumentable(words) ==
    /\ words[1] = MagicNumber
    /\ \E pass \in gpuav_settings.shader_instrumentation : RunPass(pass, words)

\* C19: with select_instrumented_shaders on, a pipeline stage is instrumented
\* only if its nested shader-module descriptor carries the GPU-assisted flag or
\* its module handle is in the selected set, and a shader object only if its
\* create-info carries the flag; with the setting off every stage and shader
\* object with instrumentable code is instrumented
C19_SelectiveInstrumentation ==
    /\ call.op \in PipelineKinds
        => \A i \in 1..Len(call.pipeline_states) :
              call.need[i]
                => \A s \in 1..Len(call.pipeline_states[i].stage_states) :
                      LET instrumented ==
                              IsInstrumented(call.shader_instrumentations_metadata[i][s])
                          words == call.pipeline_states[i].stage_states[s].module_state.words
                      IN  IF gpuav_settings.select_instrumented_shaders
                          THEN instrumented => PickedByApplication(CallerStage(call, i, s))
                          ELSE instrumented <=> Instrumentable(words)
    /\ call.op = "CreateShadersEXT"
        => \A i \in 1..Len(call.pCreateInfos) :
              LET instrumented == IsInstrumented(call.instrumentations_data[i])
              IN  IF gpuav_settings.select_instrumented_shaders
                  THEN instrumented
                          => IsSelectiveInstrumentationEnabled(call.pCreateInfos[i].pNext)
                  ELSE instrumented <=> Instrumentable(call.pCreateInfos[i].pCode)

\* with the setting on, a pipeline was created whose vertex stage uses a
\* selected module and was instrumented and whose inlined fragment stage
\* carries no flag and was left alone
C19_Witness ==
    /\ gpuav_settings.select_instrumented_shaders
    /\ call.op = "Graphics"
    /\ call.stage = "post"
    /\ call.need[1]
    /\ "M1" \in selected_instrumented_shaders
    /\ IsInstrumented(call.shader_instrumentations_metadata[1][1])
    /\ CallerStage(call, 1, 2).sm_ci.present
    /\ ~IsSelectiveInstrumentationEnabled(CallerStage(call, 1, 2).sm_ci.pNext)
    /\ ~IsInstrumented(call.shader_instrumentations_metadata[1][2])

\* with the setting on, a shader object whose create-info carries the flag was
\* instrumented
SelectedShaderObjectInstrumented ==
    /\ gpuav_settings.select_instrumented_shaders
    /\ call.op = "CreateShadersEXT"
    /\ call.stage = "post"
    /\ IsInstrumented(call.instrumentations_data[1])

\* with the setting off, a pipeline over an unflagged inlined stage was
\* instrumented
UnselectedStageInstrumented ==
    /\ ~gpuav_settings.select_instrumented_shaders
    /\ call.op = "Compute"
    /\ call.stage = "post"
    /\ CallerStage(call, 1, 1).module = VK_NULL_HANDLE
    /\ ~IsSelectiveInstrumentationEnabled(CallerStage(call, 1, 1).sm_ci.pNext)
    /\ IsInstrumented(call.shader_instrumentations_metadata[1][1])

\* an inlined stage whose nested module descriptor carries the flag
InlinedAndFlagged(info) ==
    /\ info.module = VK_NULL_HANDLE
    /\ info.sm_ci.present
    /\ IsSelectiveInstrumentationEnabled(info.sm_ci.pNext)

\* C20 as stated: with select_instrumented_shaders on, an inlined stage whose
\* nested shader-module descriptor carries the GPU-assisted flag is selected:
\* when the rewriter modifies its code, the driver gets the instrumented code
\* and the created pipeline gets a registry record for the stage
C20_InlinedFlaggedStageSelected ==
    (call.op \in PipelineKinds /\ gpuav_settings.select_instrumented_shaders)
    => \A i \in 1..Len(call.pipeline_states) :
          call.need[i]
            => \A s \in 1..Len(call.pipeline_states[i].stage_states) :
                  LET info == CallerStage(call, i, s)
                      metadata == call.shader_instrumentations_metadata[i][s]
                  IN  (InlinedAndFlagged(info) /\ Instrumentable(info.sm_ci.code))
                        => /\ IsInstrumented(metadata)
                           /\ call.modified_create_infos[i].pStages[s].sm_ci.code
                                    # info.sm_ci.code
                           /\ call.stage = "post"
                                => \E r \in instrumented_shaders_map_ :
                                        /\ r.id = metadata.unique_shader_id
                                        /\ r.pipeline = call.pPipelines[i]

\* what the code does: unless a null handle is in the selected set, a flagged
\* inlined stage is left out like any stage whose handle is not selected
InlinedFlaggedStageSkipped ==
    (call.op \in PipelineKinds /\ gpuav_settings.select_instrumented_shaders
        /\ VK_NULL_HANDLE \notin selected_instrumented_shaders)
    => \A i \in 1..Len(call.pipeline_states) :
          call.need[i]
            => \A s \in 1..Len(call.pipeline_states[i].stage_states) :
                  InlinedAndFlagged(CallerStage(call, i, s))
                    => /\ ~IsInstrumented(call.shader_instrumentations_metadata[i][s])
                       /\ call.modified_create_infos[i].pStages[s]
                                = call.pCreateInfos[i].pStages[s]

\* the order of the passes
PassOrder ==
    <<"bindless_descriptor", "non_bindless_oob_buffer", "non_bindless_oob_texel_buffer",
      "buffer_device_address", "ray_query", "post_process_descriptor_index",
      "link_functions", "debug_printf">>

\* the setting that turns a pass on; linking has none
PassIsOn(pass) ==
    CASE pass \in {"bindless_descriptor", "non_bindless_oob_buffer",
                   "non_bindless_oob_texel_buffer"} ->
            "bindless_descriptor" \in gpuav_settings.shader_instrumentation
      [] pass = "link_functions" -> TRUE
      [] pass = "debug_printf" -> gpuav_settings.debug_printf_enabled
      [] OTHER -> pass \in gpuav_settings.shader_instrumentation

\* the steps of a call that follow the test of modified
LaterSteps == {"PostProcess", "ToBinary", "validate", "dce"}

StepsOf(c) == {c.result.steps[k] : k \in 1..Len(c.result.steps)}

\* the passes a call ran, in the order it ran them
PassesOf(c) == SelectSeq(c.result.steps, LAMBDA step : step \notin LaterSteps)

\* an executed pass of the call reported a modification
SomePassModified(c) ==
    \E k \in 1..Len(c.result.steps) : RunPass(c.result.steps[k], c.input_spirv)

\* the passes run in the fixed order, each only with its setting on
PassesInOrder(c) == PassesOf(c) = SelectSeq(PassOrder, PassIsOn)

\* a call that returns without a modification serializes, dumps, validates
\* and optimizes nothing
NothingAfterPasses(c) ==
    /\ StepsOf(c) \cap LaterSteps = {}
    /\ c.result.out = <<>>
    /\ \A k \in 1..Len(c.result.dumps) : c.result.dumps[k] = "before"

NoPassModified ==
    /\ call.op = "InstrumentShader"
    /\ call.input_spirv = WPlain
    /\ gpuav_settings.shader_instrumentation = {"bindless_descriptor", "ray_query"}
    /\ gpuav_settings.debug_dump_instrumented_shaders
    /\ gpuav_settings.debug_validate_instrumented_shaders
    /\ ~call.result.pass

\* position of a step in the steps of a call, 0 if it was not taken
StepIndex(c, step) ==
    IF step \in StepsOf(c)
    THEN CHOOSE k \in 1..Len(c.result.steps) : c.result.steps[k] = step
    ELSE 0

\* the words for which an InstrumentShader call of c returned false
UnchangedWords(c) ==
    {c.instrument_calls[k].words :
        k \in {j \in 1..Len(c.instrument_calls) : ~c.instrument_calls[j].result.pass}}

\* C28: in InstrumentShader re-validation, when enabled, precedes dead-code
\* elimination; when the validator rejects the binary the call returns
\* 'unchanged' without running DCE; DCE runs exactly when debug_printf_only
\* is off, a pass modified the module and re-validation did not fail; and a
\* caller whose InstrumentShader call returned 'unchanged' hands the driver the
\* application's code, records no unique shader id and caches nothing for those
\* words
C28_ValidateThenOptimize ==
    /\ (call.op = "InstrumentShader" /\ call.result.ran)
        => LET validate == gpuav_settings.debug_validate_instrumented_shaders
               rejected == SomePassModified(call) /\ validate /\ ~call.env.validator_ok
           IN  /\ "validate" \in StepsOf(call) <=> (SomePassModified(call) /\ validate)
               /\ ("validate" \in StepsOf(call) /\ "dce" \in StepsOf(call))
                    => StepIndex(call, "validate") < StepIndex(call, "dce")
               /\ rejected => ~call.result.pass /\ "dce" \notin StepsOf(call)
               /\ "dce" \in StepsOf(call)
                    <=> (~gpuav_settings.debug_printf_only /\ SomePassModified(call)
                            /\ ~rejected)
    /\ call.op \in ShaderCreationOps
        => /\ OriginalBinaryUsed(call, UnchangedWords(call))
           /\ \A w \in UnchangedWords(call) :
                /\ ~\E sub \in Substitutions(call) : sub.words = w
                /\ ~\E e \in instrumented_shaders_cache_ : e.hash = ShaderHash(w)

\* with re-validation on, the validator rejected a binary the passes produced
C28_Witness ==
    /\ call.op = "InstrumentShader"
    /\ gpuav_settings.debug_validate_instrumented_shaders
    /\ ~gpuav_settings.debug_printf_only
    /\ SomePassModified(call)
    /\ ~call.env.validator_ok
    /\ call.result.out # <<>>

\* with the cache on, the validator rejected the binary of a shader object
ValidatorRejectedShaderObject ==
    /\ call.op = "CreateShadersEXT"
    /\ gpuav_settings.cache_instrumented_shaders
    /\ Len(call.instrument_calls) = 1
    /\ call.instrument_calls[1].result.error
    /\ call.instrument_calls[1].result.steps[Len(call.instrument_calls[1].result.steps)]
            = "validate"

\* DebugPrintf alone modified a module: validated, not optimized
PrintfOnlySkipsDce ==
    /\ call.op = "InstrumentShader"
    /\ gpuav_settings.debug_printf_only
    /\ gpuav_settings.debug_validate_instrumented_shaders
    /\ call.result.pass

------------------------------------------------------------------------------
\* FindShaderSource: the source line of a faulting instruction

MaxInstructions == 4

Insn(opcode, result_id, word3, word4, name) ==
    [opcode |-> opcode, result_id |-> result_id, word3 |-> word3, word4 |-> word4,
     name |-> name]

\* the instructions a stream is made of: the import of the debug-info set as
\* id 1, its DebugLine, the same instruction number of another set, OpLine,
\* OpFunctionEnd and any other instruction
ImportDebugInfo == Insn("OpExtInstImport", 1, 0, 0, "NonSemantic.Shader.DebugInfo.100")
DebugLine == Insn("OpExtInst", 0, 1, "DebugLine", "")
OtherSetInst == Insn("OpExtInst", 0, 2, "DebugLine", "")
OpLine == Insn("OpLine", 0, 0, 0, "")
OpFunctionEnd == Insn("OpFunctionEnd", 0, 0, 0, "")
OpOther == Insn("OpOther", 0, 0, 0, "")

InstructionKinds == {ImportDebugInfo, DebugLine, OtherSetInst, OpLine, OpFunctionEnd, OpOther}

InstructionStreams == UNION {[1..n -> InstructionKinds] : n \in 1..MaxInstructions}

\* the loop of FindShaderSource from the 0-based index on: the position in
\* the stream of last_line_inst, 0 for nullptr
RECURSIVE FindLastLine(_, _, _, _, _)
FindLastLine(instructions, instruction_position, index, shader_debug_info_set_id, last_line_inst) ==
    IF index >= Len(instructions) THEN last_line_inst
    ELSE LET insn == instructions[index + 1]
             set_id == IF /\ insn.opcode = "OpExtInstImport"
                          /\ insn.name = "NonSemantic.Shader.DebugInfo.100"
                       THEN insn.result_id
                       ELSE shader_debug_info_set_id
             line == IF /\ insn.opcode = "OpExtInst"
                        /\ insn.word3 = set_id
                        /\ insn.word4 = "DebugLine"
                     THEN index + 1
                     ELSE IF insn.opcode = "OpLine" THEN index + 1
                     ELSE IF insn.opcode = "OpFunctionEnd" THEN 0
                     ELSE last_line_inst
         IN  IF index = instruction_position THEN line
             ELSE FindLastLine(instructions, instruction_position, index + 1, set_id, line)

FindShaderSource(instructions, instruction_position, debug_printf_only) ==
    LET last_line_inst == FindLastLine(instructions, instruction_position, 0, 0, 0)
    IN  [index |-> instruction_position,
         last_line_inst |-> last_line_inst,
         text |-> IF last_line_inst # 0
                  THEN IF debug_printf_only THEN "Debug shader printf message generated "
                       ELSE "Shader validation error occurred "
                  ELSE "Unable to source. Build shader with debug info to get source information."]

FindShaderSourceCall(instructions, instruction_position) ==
    /\ call.stage = "idle"
    /\ call' = [op |-> "FindShaderSource", stage |-> "post",
                instructions |-> instructions, instruction_position |-> instruction_position,
                result |-> FindShaderSource(instructions, instruction_position,
                                            gpuav_settings.debug_printf_only)]
    /\ UNCHANGED <<lockVars, deferred_operation_post_check, driver_shader_modules, driver_library_pipelines, cache_log, driver_objects, gpuav_settings, phase, coreVars,
                   selected_instrumented_shaders, instrumented_shaders_cache_,
                   instrumented_shaders_map_, unique_shader_module_id_, shader_objects,
                   pipelines>>

SourceSettings ==
    {st \in InstrumentSettings :
        /\ st.shader_instrumentation \in {{}, {"bindless_descriptor"}}
        /\ st.debug_printf_only = st.debug_printf_enabled
        /\ ~st.debug_validate_instrumented_shaders
        /\ ~st.debug_dump_instrumented_shaders
        /\ ~st.cache_instrumented_shaders}

InitSource == InitWith(SourceSettings)

NextSource ==
    \/ \E instructions \in InstructionStreams, instruction_position \in 0..MaxInstructions :
            FindShaderSourceCall(instructions, instruction_position)
    \/ Return

SpecSource == InitSource /\ [][NextSource]_vars

\* instruction k of the stream is a line directive: OpLine, or the DebugLine
\* of a set imported before it as NonSemantic.Shader.DebugInfo.100
IsLineDirective(instructions, k) ==
    \/ instructions[k].opcode = "OpLine"
    \/ /\ instructions[k].opcode = "OpExtInst"
       /\ instructions[k].word4 = "DebugLine"
       /\ \E j \in 1..(k - 1) :
            /\ instructions[j].opcode = "OpExtInstImport"
            /\ instructions[j].name = "NonSemantic.Shader.DebugInfo.100"
            /\ instructions[j].result_id = instructions[k].word3

\* the line directives in scope among the first n instructions: none of the
\* instructions after them, up to the n-th, is an OpFunctionEnd
InScope(instructions, n) ==
    {k \in 1..n : /\ IsLineDirective(instructions, k)
                  /\ \A j \in (k + 1)..n : instructions[j].opcode # "OpFunctionEnd"}

MostRecent(S) == IF S = {} THEN 0 ELSE CHOOSE k \in S : \A j \in S : j <= k

\* C29: for a requested 1-based index N, FindShaderSource reports the most
\* recent line directive before instruction N that no OpFunctionEnd before N
\* follows, 'Unable to source' when there is none; nothing located after
\* instruction N influences the result
C29_SourceBeforeInstruction ==
    (call.op = "FindShaderSource" /\ call.instruction_position \in 1..Len(call.instructions))
        => call.result.last_line_inst
                = MostRecent(InScope(call.instructions, call.instruction_position - 1))

\* what the loop computes: it counts from 0 and stops after the instruction
\* whose count equals the requested index, so the directive in scope after
\* the first N + 1 instructions is reported
SourceThroughNextInstruction ==
    call.op = "FindShaderSource"
        => LET n == IF call.instruction_position + 1 < Len(call.instructions)
                    THEN call.instruction_position + 1
                    ELSE Len(call.instructions)
           IN  /\ call.result.last_line_inst = MostRecent(InScope(call.instructions, n))
               /\ call.result.last_line_inst = 0
                    <=> call.result.text
                          = "Unable to source. Build shader with debug info to get source information."

\* an OpLine that follows instruction 1 is reported for index 1
LineAfterInstructionReported ==
    /\ call.op = "FindShaderSource"
    /\ call.instructions = <<OpOther, OpLine>>
    /\ call.instruction_position = 1
    /\ call.result.last_line_inst = 2

\* an OpFunctionEnd that follows instruction 2 hides the OpLine before it
FunctionEndAfterInstructionResets ==
    /\ call.op = "FindShaderSource"
    /\ call.instructions = <<OpLine, OpOther, OpFunctionEnd>>
    /\ call.instruction_position = 2
    /\ call.result.last_line_inst = 0

------------------------------------------------------------------------------
\* ReadLock / WriteLock: the guards on validation_object_mutex

\* a deferred guard when the chassis locks at a finer grain
WriteLock_Deferred(settings) == [kind |-> "write", lock |-> "defer_lock"]

WriteLock(settings) ==
    IF settings.fine_grained_locking
    THEN [kind |-> "write", lock |-> "defer_lock"]
    ELSE [kind |-> "write", lock |-> "lock"]

ReadLock(settings) ==
    IF settings.fine_grained_locking
    THEN [kind |-> "read", lock |-> "defer_lock"]
    ELSE [kind |-> "read", lock |-> "lock"]

\* a thread constructs its guard: a deferred guard is returned at once, a
\* locking one blocks in its constructor until the mutex is granted
ConstructGuard(t, guard) ==
    /\ guards[t] = NoGuard
    /\ guards' = [guards EXCEPT ![t] = [kind |-> guard.kind, owns |-> FALSE,
                                        blocked |-> guard.lock = "lock"]]
    /\ UNCHANGED <<global_settings, hooks, driver_shader_modules, driver_library_pipelines,
                   deferred_operation_post_check, cache_log, driver_objects, gpuav_settings, phase, coreVars,
                   selected_instrumented_shaders, instrumented_shaders_cache_,
                   instrumented_shaders_map_, unique_shader_module_id_, shader_objects,
                   pipelines, call>>

ReadLockCall(t) == ConstructGuard(t, ReadLock(global_settings))

WriteLockCall(t) == ConstructGuard(t, WriteLock(global_settings))

\* std::shared_mutex: exclusive ownership excludes every other ownership
Grantable(t) ==
    \A u \in Threads \ {t} :
        guards[u].owns => (guards[t].kind = "read" /\ guards[u].kind = "read")

\* the mutex is granted to a blocked constructor, which then returns
LockGranted(t) ==
    /\ guards[t].blocked
    /\ Grantable(t)
    /\ guards' = [guards EXCEPT ![t] = [@ EXCEPT !.owns = TRUE, !.blocked = FALSE]]
    /\ UNCHANGED <<global_settings, hooks, driver_shader_modules, driver_library_pipelines,
                   deferred_operation_post_check, cache_log, driver_objects, gpuav_settings, phase, coreVars,
                   selected_instrumented_shaders, instrumented_shaders_cache_,
                   instrumented_shaders_map_, unique_shader_module_id_, shader_objects,
                   pipelines, call>>

\* the hook returns: the guard is destroyed and unlocks what it owns
GuardDestroyed(t) ==
    /\ guards[t].kind # "none"
    /\ ~guards[t].blocked
    /\ guards' = [guards EXCEPT ![t] = NoGuard]
    /\ UNCHANGED <<global_settings, hooks, driver_shader_modules, driver_library_pipelines,
                   deferred_operation_post_check, cache_log, driver_objects, gpuav_settings, phase, coreVars,
                   selected_instrumented_shaders, instrumented_shaders_cache_,
                   instrumented_shaders_map_, unique_shader_module_id_, shader_objects,
                   pipelines, call>>

InitLock ==
    /\ gpuav_settings \in SourceSettings
    /\ phase = "constructed"
    /\ aborted_ = FALSE
    /\ dispatch_registered = TRUE
    /\ instrumentation_desc_set_bind_index_ = 0
    /\ instrumentation_desc_layout_ = VK_NULL_HANDLE
    /\ dummy_desc_layout_ = VK_NULL_HANDLE
    /\ instrumentation_pipeline_layout_ = VK_NULL_HANDLE
    /\ selected_instrumented_shaders = {}
    /\ instrumented_shaders_cache_ = {}
    /\ instrumented_shaders_map_ = {}
    /\ unique_shader_module_id_ = 1
    /\ shader_objects = {}
    /\ pipelines = [p \in PipelineHandles |-> NoPipeline]
    /\ call = IdleCall
    /\ cache_log = <<>>
    /\ driver_objects = [h \in InternalHandles |-> [created |-> 0, destroyed |-> 0]]
    /\ driver_shader_modules = {}
    /\ driver_library_pipelines = {}
    /\ deferred_operation_post_check = [d \in DeferredOperations |-> NotFound]
    /\ global_settings \in [fine_grained_locking : BOOLEAN]
    /\ guards = [t \in Threads |-> NoGuard]
    /\ hooks = [t \in Threads |-> IdleHook]

NextLock ==
    \/ \E t \in Threads : ReadLockCall(t)
    \/ \E t \in Threads : WriteLockCall(t)
    \/ \E t \in Threads : LockGranted(t)
    \/ \E t \in Threads : GuardDestroyed(t)

SpecLock == InitLock /\ [][NextLock]_vars

\* thread t is inside a hook with the guard ReadLock / WriteLock returned
InHook(t, kind) == guards[t].kind = kind /\ ~guards[t].blocked

\* C30: the guard ReadLock and WriteLock return holds the mutex when
\* fine_grained_locking is off and holds nothing when it is on; with it off no
\* two threads are inside hooks with the write guard at the same time, and no
\* thread is inside a hook with a read guard while another has the write guard
C30_GuardsOnObjectMutex ==
    /\ \A t \in Threads :
        (InHook(t, "read") \/ InHook(t, "write"))
            => (guards[t].owns <=> ~global_settings.fine_grained_locking)
    /\ ~global_settings.fine_grained_locking
        => \A t \in Threads : \A u \in Threads \ {t} :
            /\ ~(InHook(t, "write") /\ InHook(u, "write"))
            /\ ~(InHook(t, "read") /\ InHook(u, "write"))

\* with fine_grained_locking off one thread is inside a hook with the write
\* guard while a reader and a writer wait for the mutex
C30_Witness ==
    /\ ~global_settings.fine_grained_locking
    /\ \E t \in Threads, u \in Threads, v \in Threads :
        /\ InHook(t, "write") /\ guards[t].owns
        /\ guards[u].kind = "read" /\ guards[u].blocked
        /\ guards[v].kind = "write" /\ guards[v].blocked

\* with fine_grained_locking on two threads are inside hooks with deferred
\* write guards
DeferredWriteGuards ==
    /\ global_settings.fine_grained_locking
    /\ \E t \in Threads : \E u \in Threads \ {t} :
        /\ InHook(t, "write") /\ InHook(u, "write")
        /\ ~guards[t].owns /\ ~guards[u].owns

\* with fine_grained_locking off two threads share the mutex as readers
SharedReadGuards ==
    /\ ~global_settings.fine_grained_locking
    /\ \E t \in Threads : \E u \in Threads \ {t} :
        /\ InHook(t, "read") /\ InHook(u, "read")
        /\ guards[t].owns /\ guards[u].owns

------------------------------------------------------------------------------
\* creation calls the driver may fail

DriverSettings ==
    {st \in InstrumentSettings :
        /\ st.shader_instrumentation = {"bindless_descriptor"}
        /\ ~st.debug_printf_enabled
        /\ ~st.debug_validate_instrumented_shaders
        /\ ~st.debug_dump_instrumented_shaders
        /\ ~st.cache_instrumented_shaders}

\* the handles the driver writes: for each element a new handle, or
\* VK_NULL_HANDLE when the creation of that element failed
DriverResults(pool, in_use, n) ==
    LET fresh == FreshHandles(pool, in_use, n)
    IN  {r \in [1..Len(fresh) -> Range(fresh) \cup {VK_NULL_HANDLE}] :
            \A i \in 1..Len(fresh) : r[i] \in {fresh[i], VK_NULL_HANDLE}}

DriverGraphicsBatches ==
    {<<PipelineState("Graphics", FALSE, <<>>, {},
                     <<ByHandle("vertex", "M1"), Inlined("fragment", None)>>)>>}

InitDriver == InitWith(DriverSettings)

NextDriver ==
    \/ PostCreateDevice(SupportedDevice)
    \/ \E b \in InstrumentShaderBatches : PreCallRecordCreateShadersEXT(b, EnvOk)
    \/ /\ call.op = "CreateShadersEXT"
       /\ \E pShaders \in DriverResults(ShaderObjectPool, shader_objects,
                                         Len(call.pCreateInfos)) :
            PostCallRecordCreateShadersEXT(pShaders)
    \/ \E s \in ShaderObjectHandles : PreCallRecordDestroyShaderEXT(s)
    \/ \E b \in InstrumentComputeBatches : PreCallRecordCreateComputePipelines(b, EnvOk)
    \/ \E b \in DriverGraphicsBatches : PreCallRecordCreateGraphicsPipelines(b, EnvOk)
    \/ /\ call.op = "Compute"
       /\ \E pPipelines \in DriverResults(PipelinePool, AlivePipelines,
                                           Len(call.pCreateInfos)) :
            PostCallRecordCreateComputePipelines(pPipelines)
    \/ /\ call.op = "Graphics"
       /\ \E pPipelines \in DriverResults(PipelinePool, AlivePipelines,
                                           Len(call.pCreateInfos)) :
            PostCallRecordCreateGraphicsPipelines(pPipelines)
    \/ \E p \in PipelineHandles : PreCallRecordDestroyPipeline(p)
    \/ Return

SpecDriver == InitDriver /\ [][NextDriver]_vars

\* C24: every record of the registry has exactly one of pipeline and
\* shader_object non-null, and the shader_module of a record with a pipeline
\* is a module handle or the inlined sentinel, never null
C24_RegistryRecordShape ==
    \A r \in instrumented_shaders_map_ :
        /\ (r.pipeline # VK_NULL_HANDLE) # (r.shader_object # VK_NULL_HANDLE)
        /\ r.pipeline # VK_NULL_HANDLE => r.shader_module # VK_NULL_HANDLE

\* what holds of every record: never both a pipeline and a shader object, a
\* pipeline comes with a module handle or the sentinel, and a record without
\* either stems from a shader object the driver failed to create
RegistryRecordShapeOrFailedShader ==
    \A r \in instrumented_shaders_map_ :
        /\ ~(r.pipeline # VK_NULL_HANDLE /\ r.shader_object # VK_NULL_HANDLE)
        /\ r.pipeline # VK_NULL_HANDLE
            => r.shader_module \in ShaderModuleHandles \cup {kPipelineStageInfoHandle}
        /\ r.pipeline = VK_NULL_HANDLE => r.shader_module = VK_NULL_HANDLE

\* the registry holds a record of a shader object the driver did not create
RecordOfFailedShaderObject ==
    /\ call.op = "CreateShadersEXT" /\ call.stage = "post"
    /\ call.pShaders = <<VK_NULL_HANDLE>>
    /\ \E r \in instrumented_shaders_map_ :
        /\ r.pipeline = VK_NULL_HANDLE
        /\ r.shader_object = VK_NULL_HANDLE

\* C26: a replacement shader module made during a pipeline creation call
\* belongs to the record of that pipeline and is destroyed with it, also when
\* the driver then fails to create the pipeline: between calls every live
\* replacement module belongs to a live pipeline, so none is left once all
\* pipelines are destroyed
C26_ReplacementModulesOwned ==
    call.stage = "idle" => driver_shader_modules = ModulesInUse(pipelines)

\* the modules a live pipeline owns are live, and owned by that pipeline only
OwnedModulesLive ==
    /\ ModulesInUse(pipelines) \subseteq driver_shader_modules
    /\ \A p \in PipelineHandles : \A q \in PipelineHandles \ {p} :
        Range(pipelines[p].instrumented_shader_module)
            \cap Range(pipelines[q].instrumented_shader_module) = {}

\* the driver failed to create a pipeline for which a replacement module was
\* made: no pipeline is alive and the module still is
ReplacementModuleLeaked ==
    /\ call.stage = "idle"
    /\ \A p \in PipelineHandles : ~pipelines[p].alive
    /\ driver_shader_modules # {}

\* a pipeline was destroyed together with its replacement module
ReplacementModuleDestroyed ==
    /\ call.op = "DestroyPipeline"
    /\ driver_shader_modules = {}
    /\ unique_shader_module_id_ > 1

\* code is what the rewriter made of words in call c: the output of an
\* InstrumentShader call of c, or the entry of the cache
InstrumentedWordsOf(c, words, code) ==
    \/ \E k \in 1..Len(c.instrument_calls) :
        /\ c.instrument_calls[k].words = words
        /\ c.instrument_calls[k].result.pass
        /\ c.instrument_calls[k].result.out = code
    \/ /\ gpuav_settings.cache_instrumented_shaders
       /\ \E e \in instrumented_shaders_cache_ :
            e.hash = ShaderHash(words) /\ e.spirv = code

\* the registry holds a record with the id of the stage and this shader_module,
\* which is that of pipeline i of call c unless ids are shared through the cache
RecordedWith(c, i, id, shader_module) ==
    (c.stage = "post" /\ ~(c.op = "Graphics" /\ c.pipeline_states[i].create_flags_library))
        => \E r \in instrumented_shaders_map_ :
            /\ r.id = id
            /\ r.shader_module = shader_module
            /\ r.shader_object = VK_NULL_HANDLE
            /\ ~gpuav_settings.cache_instrumented_shaders => r.pipeline = c.pPipelines[i]

\* stage s of pipeline i of call c was instrumented
StageInstrumented(c, i, s) ==
    /\ c.shader_instrumentations_metadata[i] # <<>>
    /\ IsInstrumented(c.shader_instrumentations_metadata[i][s])

\* C23: for an instrumented stage given inline (null module handle, nested
\* module descriptor) the instrumented words replace the code of the nested
\* descriptor in the side copy, no replacement module is made and the record
\* of the stage has the inlined sentinel as shader_module; for an instrumented
\* stage given by module handle a module is made from the instrumented words
\* and put in the side copy, and the record has the original handle
C23_InlinedAndByHandleStages ==
    (call.op \in PipelineKinds /\ IsSpirvModified(gpuav_settings))
        => \A i \in 1..Len(call.pCreateInfos) :
            \A s \in 1..Len(call.pipeline_states[i].stage_states) :
                StageInstrumented(call, i, s)
                => LET orig == CallerStage(call, i, s)
                       side == call.modified_create_infos[i].pStages[s]
                       words == call.pipeline_states[i].stage_states[s].module_state.words
                       id == call.shader_instrumentations_metadata[i][s].unique_shader_id
                   IN  IF orig.module = VK_NULL_HANDLE
                       THEN /\ InstrumentedWordsOf(call, words, side.sm_ci.code)
                            /\ side.sm_ci.code # orig.sm_ci.code
                            /\ side.module = VK_NULL_HANDLE
                            /\ Len(call.pipeline_states[i].instrumented_shader_module)
                                = Cardinality({t \in 1..Len(call.pipeline_states[i].stage_states) :
                                      /\ StageInstrumented(call, i, t)
                                      /\ CallerStage(call, i, t).module # VK_NULL_HANDLE})
                            /\ RecordedWith(call, i, id, kPipelineStageInfoHandle)
                       ELSE \/ call.module_errors > 0
                            \/ /\ side.module \in Range(call.pipeline_states[i].instrumented_shader_module)
                               /\ side.module # orig.module
                               /\ \E k \in 1..Len(call.created_shader_modules) :
                                    /\ call.created_shader_modules[k].handle = side.module
                                    /\ InstrumentedWordsOf(call, words,
                                            call.created_shader_modules[k].pCode)
                               /\ RecordedWith(call, i, id, orig.module)

\* a graphics pipeline with an instrumented stage by handle and an
\* instrumented inlined stage was created
C23_Witness ==
    /\ call.op = "Graphics" /\ call.stage = "post"
    /\ IsSpirvModified(gpuav_settings)
    /\ \E i \in 1..Len(call.pCreateInfos) :
        /\ ~call.pipeline_states[i].create_flags_library
        /\ \E s \in 1..Len(call.pipeline_states[i].stage_states) :
            /\ StageInstrumented(call, i, s)
            /\ CallerStage(call, i, s).module = VK_NULL_HANDLE
        /\ \E s \in 1..Len(call.pipeline_states[i].stage_states) :
            /\ StageInstrumented(call, i, s)
            /\ CallerStage(call, i, s).module # VK_NULL_HANDLE
            /\ call.module_errors = 0

------------------------------------------------------------------------------
\* ray tracing pipelines created through a deferred operation

DeferredPipeline(m) ==
    PipelineState("RayTracingKHR", FALSE, <<>>, {}, <<ByHandle("raygen", m)>>)

DeferredBatches ==
    {<<DeferredPipeline("M1")>>, <<DeferredPipeline("M2")>>,
     <<DeferredPipeline("M1"), DeferredPipeline("M1")>>}

CreateResults == {"VK_SUCCESS", "VK_OPERATION_DEFERRED_KHR", "VK_OPERATION_NOT_DEFERRED_KHR"}

InitDeferred == InitWith(DriverSettings)

NextDeferred ==
    \/ PostCreateDevice(SupportedDevice)
    \/ \E b \in DeferredBatches : PreCallRecordCreateRayTracingPipelinesKHR(b, EnvOk)
    \/ /\ call.op = "RayTracingKHR"
       /\ \E deferredOperation \in DeferredOperations \cup {VK_NULL_HANDLE},
             result \in CreateResults, seeded \in BOOLEAN :
            PostCallRecordCreateRayTracingPipelinesKHR(
                deferredOperation, result, seeded,
                FreshHandles(PipelinePool, AlivePipelines, Len(call.pCreateInfos)))
    \/ \E deferredOperation \in DeferredOperations :
        /\ deferred_operation_post_check[deferredOperation].first
        /\ \E vk_pipelines \in DriverResults(PipelinePool, AlivePipelines,
                Len(deferred_operation_post_check[deferredOperation].second[1].pipeline_states)) :
            DeferredOperationCompleted(deferredOperation, vk_pipelines)
    \/ \E p \in PipelineHandles : PreCallRecordDestroyPipeline(p)
    \/ Return

SpecDeferred == InitDeferred /\ [][NextDeferred]_vars

\* the driver deferred call c to a deferred operation
DeferredCall(c) ==
    /\ c.op = "RayTracingKHR" /\ c.stage = "post"
    /\ c.deferredOperation # VK_NULL_HANDLE
    /\ c.result = "VK_OPERATION_DEFERRED_KHR"

\* the ids of the instrumented stages a list of post checks will record
PendingIds(list) ==
    UNION {UNION {InstrumentedIds(list[k].shader_instrumentations_metadata[i]) :
                    i \in 1..Len(list[k].shader_instrumentations_metadata)} :
           k \in 1..Len(list)}

\* C21: when vkCreateRayTracingPipelinesKHR is given a deferred operation and
\* the driver defers, the post-call hook inserts no record; the records of the
\* call's pipelines are in the registry only once the continuation appended to
\* the list of that deferred operation has run with the final handles, and
\* when it has run all of them are there
C21_DeferredRecordsAtCompletion ==
    /\ DeferredCall(call)
        => /\ instrumented_shaders_map_ = call.registry
           /\ call.seeded
                => /\ deferred_operation_post_check[call.deferredOperation].first
                   /\ LET list == deferred_operation_post_check[call.deferredOperation].second
                      IN  /\ list[Len(list)].fn = "GpuShaderInstrumentor"
                          /\ list[Len(list)].shader_instrumentations_metadata
                                = call.shader_instrumentations_metadata
    /\ \A d \in DeferredOperations :
        \A id \in PendingIds(deferred_operation_post_check[d].second) :
            ~\E r \in instrumented_shaders_map_ : r.id = id
    /\ call.op = "DeferredOperationCompleted"
        => \A k \in 1..Len(call.post_checks) :
            \A i \in 1..Len(call.vk_pipelines) :
                (call.post_checks[k].fn = "GpuShaderInstrumentor"
                    /\ call.vk_pipelines[i] # VK_NULL_HANDLE)
                => \A id \in InstrumentedIds(
                                call.post_checks[k].shader_instrumentations_metadata[i]) :
                        \E r \in instrumented_shaders_map_ :
                            /\ r.id = id
                            /\ r.pipeline = call.vk_pipelines[i]
                            /\ r \notin call.registry

\* a deferred operation completed and the continuation recorded the
\* instrumented stages of two pipelines
C21_Witness ==
    /\ call.op = "DeferredOperationCompleted"
    /\ Len(call.vk_pipelines) = 2
    /\ \A i \in 1..2 : call.vk_pipelines[i] # VK_NULL_HANDLE
    /\ Cardinality(instrumented_shaders_map_ \ call.registry) = 2

\* a deferred call with instrumented stages returned: nothing is recorded yet
DeferredCallPending ==
    /\ DeferredCall(call) /\ call.seeded
    /\ PendingIds(deferred_operation_post_check[call.deferredOperation].second) # {}
    /\ instrumented_shaders_map_ = {}

\* C22: when the state tracker has not seeded the list of the deferred
\* operation, the deferred post-call hook appends no continuation, leaves the
\* deferred operation without an entry and inserts no record
C22_UnseededListLeftAlone ==
    (DeferredCall(call) /\ ~call.seeded)
        => /\ deferred_operation_post_check[call.deferredOperation] = NotFound
           /\ instrumented_shaders_map_ = call.registry

\* a deferred call with instrumented stages found no list for its deferred
\* operation
C22_Witness ==
    /\ DeferredCall(call) /\ ~call.seeded
    /\ IsSpirvModified(gpuav_settings)
    /\ \E i \in 1..Len(call.shader_instrumentations_metadata) :
        InstrumentedIds(call.shader_instrumentations_metadata[i]) # {}

------------------------------------------------------------------------------
\* linking graphics pipeline libraries

\* the libraries the state tracker knows: a pre-rasterization library with a
\* vertex stage by handle, a fragment library with an inlined stage, a
\* fragment-output library without stages, a second library of
\* pre-rasterization stages
LibraryHandles == {"L1", "L2", "L3", "L4"}

LibraryState(lib) ==
    PipelineState("Graphics", TRUE, <<>>, {},
        CASE lib = "L1" -> <<ByHandle("vertex", "M1")>>
          [] lib = "L2" -> <<Inlined("fragment", None)>>
          [] lib = "L4" -> <<ByHandle("geometry", "M1")>>
          [] OTHER -> <<>>)

\* lib->active_shaders & VK_SHADER_STAGE_FRAGMENT_BIT
ActiveFragment(lib) == lib = "L2"

\* handles the driver returns for the libraries made at link time
NewLibraryPipelines == <<"NL1", "NL2", "NL3", "NL4">>

\* the handle DispatchCreateGraphicsPipelines returns: one not in use
NewLibraryPipeline(in_use) ==
    CHOOSE h \in Range(NewLibraryPipelines) \ in_use :
        \A k \in 1..Len(NewLibraryPipelines) :
            NewLibraryPipelines[k] = h
                => \A j \in 1..(k - 1) : NewLibraryPipelines[j] \in in_use

RECURSIVE LinkedStages(_)
LinkedStages(pLibraries) ==
    IF pLibraries = <<>> THEN <<>>
    ELSE (IF Head(pLibraries) \in LibraryHandles
          THEN LibraryState(Head(pLibraries)).stage_states ELSE <<>>)
         \o LinkedStages(Tail(pLibraries))

\* the state of a pipeline that links pLibraries
LinkState(pLibraries) ==
    [kind |-> "Graphics",
     create_flags_library |-> FALSE,
     has_pipeline_layout |-> TRUE,
     set_layouts |-> <<>>,
     active_slots |-> {},
     create_info |-> [pStages |-> <<>>, pLibraries |-> pLibraries],
     stage_states |-> LinkedStages(pLibraries),
     instrumented_shader_module |-> <<>>]

LinkBatches ==
    {<<LinkState(l)>> : l \in {<<"L1", "L2">>, <<"L2", "L1">>, <<"L1", "L3">>, <<"L2">>,
                               <<"L0", "L1">>, <<"L3">>, <<"L1", "L4">>}}

\* variant: the library list of the application's descriptor
LibraryCreateInfoOf_Caller(new_pipeline_ci) == "pCreateInfos"

\* where the VkPipelineLibraryCreateInfoKHR that is written to lives: it is
\* looked up in the pNext chain of the copy
LibraryCreateInfoOf(new_pipeline_ci) == "modified_create_infos"

\* the libraries of the link from library_i on: each known library with stages
\* is copied, its stages are instrumented in the copy, a pipeline is created
\* from the copy and written over the handle of the library
RECURSIVE LinkLibraries(_, _, _, _)
LinkLibraries(library_i, pipeline_state, env, acc) ==
    IF library_i > Len(pipeline_state.create_info.pLibraries) THEN acc
    ELSE
    LET handle == pipeline_state.create_info.pLibraries[library_i]
        lib == LibraryState(handle)
    IN  IF handle \notin LibraryHandles \/ lib.stage_states = <<>>
        THEN LinkLibraries(library_i + 1, pipeline_state, env, acc)
        ELSE
        LET done == InstrumentStages(1, lib, env,
                        [acc EXCEPT !.ci = lib.create_info,
                                    !.metadata = [i \in 1..Len(lib.stage_states) |->
                                                    EmptyMetadata],
                                    !.instrumented_shader_module = <<>>])
            new_lib_pipeline == NewLibraryPipeline(acc.library_pipelines_in_use)
            place == LibraryCreateInfoOf(acc.new_pipeline_ci)
        IN  LinkLibraries(library_i + 1, pipeline_state, env,
                [done EXCEPT
                    !.link_metadata = @ \o done.metadata,
                    !.new_lib_pipeline_ci = Append(@, done.ci),
                    !.library_modules = @ \o done.instrumented_shader_module,
                    !.library_pipelines_in_use = @ \cup {new_lib_pipeline},
                    !.frag_out_lib = IF ActiveFragment(handle) THEN new_lib_pipeline ELSE @,
                    !.pre_raster_lib = IF ActiveFragment(handle) THEN @ ELSE new_lib_pipeline,
                    !.new_pipeline_ci.pLibraries[library_i] =
                        IF place = "modified_create_infos" THEN new_lib_pipeline ELSE @,
                    !.pCreateInfo.pLibraries[library_i] =
                        IF place = "pCreateInfos" THEN new_lib_pipeline ELSE @])

PreCallRecordPipelineCreationShaderInstrumentationGPL(pipeline_state, env, acc) ==
    LinkLibraries(1, pipeline_state, env,
        [acc EXCEPT !.has_bindless_descriptors = HasBindlessDescriptorsPipeline(pipeline_state)])

\* the driver has handles left for the libraries a link makes anew
LibraryPipelineRoom(pLibraries) ==
    Cardinality(Range(NewLibraryPipelines) \ driver_library_pipelines) >= Len(pLibraries)

\* PreCallRecordCreateGraphicsPipelines for one pipeline with linking_shaders
PreCallRecordCreateGraphicsPipelinesLink(pipeline_states, env) ==
    /\ Intercepting
    /\ Len(pipeline_states) = 1
    /\ CounterRoom(TotalStages(pipeline_states))
    /\ Cardinality({p \in PipelineHandles : ~pipelines[p].alive}) >= Len(pipeline_states)
    /\ ModuleRoom(TotalStages(pipeline_states))
    /\ LibraryPipelineRoom(pipeline_states[1].create_info.pLibraries)
    /\ LET pipeline_state == pipeline_states[1]
           start == [cache |-> instrumented_shaders_cache_,
                     unique_id |-> unique_shader_module_id_,
                     error |-> FALSE, errors |-> 0, module_errors |-> 0,
                     need |-> <<>>,
                     instrument_calls |-> <<>>, created_shader_modules |-> <<>>,
                     modules_in_use |-> driver_shader_modules,
                     ci |-> [pStages |-> <<>>], metadata |-> <<>>,
                     instrumented_shader_module |-> <<>>,
                     has_bindless_descriptors |-> FALSE,
                     \* the application's descriptor and the deep copy of it
                     pCreateInfo |-> pipeline_state.create_info,
                     new_pipeline_ci |-> pipeline_state.create_info,
                     link_metadata |-> <<>>, new_lib_pipeline_ci |-> <<>>,
                     library_modules |-> <<>>,
                     library_pipelines_in_use |-> driver_library_pipelines,
                     frag_out_lib |-> VK_NULL_HANDLE, pre_raster_lib |-> VK_NULL_HANDLE]
           need == IsSpirvModified(gpuav_settings)
                        /\ NeedPipelineCreationShaderInstrumentation(pipeline_state)
           acc == IF need
                  THEN PreCallRecordPipelineCreationShaderInstrumentationGPL(
                            pipeline_state, env, start)
                  ELSE start
       IN  /\ call' = [op |-> "Graphics", stage |-> "pre", linking_shaders |-> TRUE,
                       pCreateInfos |-> <<acc.pCreateInfo>>,
                       modified_create_infos |-> <<acc.new_pipeline_ci>>,
                       shader_instrumentations_metadata |->
                            IF IsSpirvModified(gpuav_settings)
                            THEN <<acc.link_metadata>> ELSE <<>>,
                       new_lib_pipeline_ci |-> acc.new_lib_pipeline_ci,
                       library_modules |-> acc.library_modules,
                       frag_out_lib |-> acc.frag_out_lib,
                       pre_raster_lib |-> acc.pre_raster_lib,
                       \* history: the pipelines the driver made for this call
                       new_lib_pipelines |->
                            acc.library_pipelines_in_use \ driver_library_pipelines,
                       instrument_calls |-> acc.instrument_calls,
                       created_shader_modules |-> acc.created_shader_modules,
                       module_errors |-> acc.module_errors, need |-> <<need>>,
                       pipeline_states |-> pipeline_states, errors |-> acc.errors]
           /\ instrumented_shaders_cache_' = acc.cache
           /\ unique_shader_module_id_' = acc.unique_id
           /\ driver_shader_modules' = acc.modules_in_use
           /\ driver_library_pipelines' = acc.library_pipelines_in_use
           /\ IF acc.error THEN InternalError
              ELSE UNCHANGED <<aborted_, dispatch_registered>>
    /\ UNCHANGED <<lockVars, deferred_operation_post_check, cache_log, driver_objects,
                   gpuav_settings, phase, instrumentation_desc_set_bind_index_,
                   instrumentation_desc_layout_, dummy_desc_layout_,
                   instrumentation_pipeline_layout_, selected_instrumented_shaders,
                   instrumented_shaders_map_, shader_objects, pipelines>>

\* the records of the stages of the libraries of a link, under the handles
\* of the libraries
RECURSIVE PostLinkLibraries(_, _, _, _, _)
PostLinkLibraries(library_i, pLibraries, shader_index, metadata, map) ==
    IF library_i > Len(pLibraries) THEN map
    ELSE
    LET handle == pLibraries[library_i]
        lib == LibraryState(handle)
    IN  IF handle \notin LibraryHandles \/ lib.stage_states = <<>>
        THEN PostLinkLibraries(library_i + 1, pLibraries, shader_index, metadata, map)
        ELSE PostLinkLibraries(library_i + 1, pLibraries,
                shader_index + Len(lib.stage_states), metadata,
                InsertStageRecords(1, handle, lib,
                    SubSeq(metadata, shader_index + 1, shader_index + Len(lib.stage_states)),
                    map))

PostCallRecordPipelineCreationShaderInstrumentationGPL(pipeline_state, metadata, map) ==
    IF metadata = <<>> THEN map
    ELSE PostLinkLibraries(1, pipeline_state.create_info.pLibraries, 0, metadata, map)

\* PostCallRecordCreateGraphicsPipelines for one pipeline with linking_shaders
PostCallRecordCreateGraphicsPipelinesLink(pPipelines) ==
    /\ phase = "live" /\ dispatch_registered
    /\ call.op = "Graphics" /\ call.stage = "pre"
    /\ Len(pPipelines) = Len(call.pCreateInfos)
    /\ call' = [call EXCEPT !.stage = "post"]
                    @@ [pPipelines |-> pPipelines, deferredOperation |-> VK_NULL_HANDLE,
                        result |-> "VK_SUCCESS", registry |-> instrumented_shaders_map_]
    /\ instrumented_shaders_map_' =
            IF ~IsSpirvModified(gpuav_settings) \/ pPipelines[1] = VK_NULL_HANDLE
            THEN instrumented_shaders_map_
            ELSE PostCallRecordPipelineCreationShaderInstrumentationGPL(
                    call.pipeline_states[1], call.shader_instrumentations_metadata[1],
                    instrumented_shaders_map_)
    /\ pipelines' =
            [p \in PipelineHandles |->
                IF p = pPipelines[1]
                THEN [alive |-> TRUE, instrumented_shader_module |-> <<>>,
                      was_instrumented |->
                            /\ IsSpirvModified(gpuav_settings)
                            /\ InstrumentedIds(call.shader_instrumentations_metadata[1]) # {},
                      \* history: the ids under which the call inserted records
                      instrumented_ids |->
                            IF IsSpirvModified(gpuav_settings)
                            THEN InstrumentedIds(call.shader_instrumentations_metadata[1])
                            ELSE {},
                      pre_raster_lib |-> call.pre_raster_lib,
                      frag_out_lib |-> call.frag_out_lib,
                      \* history: the libraries linked and the pipelines made
                      pLibraries |-> call.pCreateInfos[1].pLibraries,
                      new_lib_pipelines |-> call.new_lib_pipelines]
                ELSE pipelines[p]]
    /\ UNCHANGED <<lockVars, deferred_operation_post_check, driver_shader_modules, driver_library_pipelines, cache_log,
                   driver_objects, gpuav_settings, phase, coreVars,
                   selected_instrumented_shaders, instrumented_shaders_cache_,
                   unique_shader_module_id_, shader_objects>>

LinkSettings ==
    {st \in InstrumentSettings :
        /\ st.shader_instrumentation = {"bindless_descriptor"}
        /\ ~st.debug_printf_enabled
        /\ ~st.debug_validate_instrumented_shaders
        /\ ~st.debug_dump_instrumented_shaders
        /\ ~st.cache_instrumented_shaders}

InitLink == InitWith(LinkSettings)

NextLink ==
    \/ PostCreateDevice(SupportedDevice)
    \/ \E ci \in PipelineLayoutCreateInfos : PreCallRecordCreatePipelineLayout(ci)
    \/ \E ok \in BOOLEAN : PostCallRecordCreatePipelineLayout(ok)
    \/ \E b \in LinkBatches : PreCallRecordCreateGraphicsPipelinesLink(b, EnvOk)
    \/ /\ call.op = "Graphics" /\ "linking_shaders" \in DOMAIN call
       /\ \E pPipelines \in DriverResults(PipelinePool, AlivePipelines,
                                           Len(call.pCreateInfos)) :
            PostCallRecordCreateGraphicsPipelinesLink(pPipelines)
    \/ \E b \in DriverGraphicsBatches : PreCallRecordCreateGraphicsPipelines(b, EnvOk)
    \/ /\ call.op = "Graphics" /\ "linking_shaders" \notin DOMAIN call
       /\ PostCallRecordCreateGraphicsPipelines(
            FreshHandles(PipelinePool, AlivePipelines, Len(call.pCreateInfos)))
    \/ \E b \in InstrumentShaderBatches : PreCallRecordCreateShadersEXT(b, EnvOk)
    \/ call.op = "CreateShadersEXT" /\ PostCallRecordCreateShadersEXT(
            FreshHandles(ShaderObjectPool, shader_objects, Len(call.pCreateInfos)))
    \/ \E s \in ShaderObjectHandles : PreCallRecordDestroyShaderEXT(s)
    \/ \E p \in PipelineHandles : PreCallRecordDestroyPipeline(p)
    \/ Return

SpecLink == InitLink /\ [][NextLink]_vars

\* call c links libraries and its stages are instrumented
LinkCall(c) ==
    /\ c.op = "Graphics" /\ "linking_shaders" \in DOMAIN c
    /\ c.need[1]

\* the libraries of a link that are made anew from instrumented stages
RebuiltLibraries(pLibraries) ==
    {library_i \in 1..Len(pLibraries) :
        /\ pLibraries[library_i] \in LibraryHandles
        /\ LibraryState(pLibraries[library_i]).stage_states # <<>>}

InlinedCodeKept ==
    /\ call.op = "Graphics" /\ "linking_shaders" \notin DOMAIN call
    /\ \E s \in 1..Len(call.pCreateInfos[1].pStages) :
        /\ call.pCreateInfos[1].pStages[s].sm_ci.present
        /\ call.pCreateInfos[1].pStages[s].sm_ci.code = W2
        /\ call.modified_create_infos[1].pStages[s].sm_ci.code # W2

\* the records of a link carry the handles of the libraries
LinkRecordsUnderLibraries ==
    (LinkCall(call) /\ call.stage = "post")
        => \A r \in instrumented_shaders_map_ \ call.registry : r.pipeline \in LibraryHandles

\* pipeline handle p names a pipeline made by linking libraries anew
LinkedPipeline(p) ==
    /\ pipelines[p].alive
    /\ {pipelines[p].pre_raster_lib, pipelines[p].frag_out_lib} # {VK_NULL_HANDLE}

\* the records the creation of pipeline p inserted that the registry holds
RecordsInsertedFor(p, map) == {r \in map : r.id \in pipelines[p].instrumented_ids}

\* C34: the destruction of a pipeline made by the final link of libraries
\* removes every registry record that was inserted for its stages
C34_LinkRecordsRemovedOnDestroy ==
    [][\A p \in PipelineHandles :
            (LinkedPipeline(p) /\ ~pipelines'[p].alive)
                => RecordsInsertedFor(p, instrumented_shaders_map_') = {}]_vars

\* the destruction of a linked pipeline erased nothing while the records of
\* its stages are in the registry under the handles of the libraries
LinkRecordsLeftBehind ==
    /\ call.op = "DestroyPipeline" /\ call.erased = {}
    /\ \E r \in instrumented_shaders_map_ : r.pipeline \in LibraryHandles
    /\ \A p \in PipelineHandles : ~pipelines[p].alive

\* the step is the post-call hook of a link whose pipeline was created
LinkRecorded(p) ==
    /\ LinkCall(call) /\ call.stage = "pre"
    /\ ~pipelines[p].alive /\ pipelines'[p].alive

\* the libraries of the copy after a link: those with stages name pipelines
\* made anew that the pipeline holds, the others are the application's
LibrariesReplaced(p) ==
    LET given == call.pCreateInfos[1].pLibraries
        copy == call.modified_create_infos[1].pLibraries
    IN  \A library_i \in 1..Len(given) :
            IF library_i \in RebuiltLibraries(given)
            THEN /\ copy[library_i] \in call.new_lib_pipelines
                 /\ copy[library_i] \in {pipelines'[p].pre_raster_lib,
                                          pipelines'[p].frag_out_lib}
            ELSE copy[library_i] = given[library_i]

\* C35: at the final link each library with stages is replaced in the copy
\* by a pipeline made anew, a library without stages is left as given, and
\* every pipeline so made is recorded on the linked pipeline and destroyed
\* with it, whatever the number and the kinds of the libraries
C35_InternalLibrariesOwned ==
    [][\A p \in PipelineHandles :
        /\ LinkRecorded(p) => LibrariesReplaced(p)
        /\ (LinkedPipeline(p) /\ ~pipelines'[p].alive)
                => pipelines[p].new_lib_pipelines \cap driver_library_pipelines' = {}]_vars

\* at most one of the libraries with stages has fragment stages and at most
\* one has none
OneLibraryPerSlot(pLibraries) ==
    \A i, j \in RebuiltLibraries(pLibraries) :
        ActiveFragment(pLibraries[i]) = ActiveFragment(pLibraries[j]) => i = j

\* with one library for each of the two places the pipeline has, the
\* replacement, the recording and the destruction are as stated
InternalLibrariesOwnedPerSlot ==
    [][\A p \in PipelineHandles :
        /\ (LinkRecorded(p) /\ OneLibraryPerSlot(call.pCreateInfos[1].pLibraries))
                => LibrariesReplaced(p)
        /\ (LinkedPipeline(p) /\ ~pipelines'[p].alive
                /\ OneLibraryPerSlot(pipelines[p].pLibraries))
                => pipelines[p].new_lib_pipelines \cap driver_library_pipelines' = {}]_vars

\* a pipeline linked from two libraries of pre-rasterization stages was
\* destroyed and a pipeline made for it is still alive in the driver
InternalLibraryLeaked ==
    /\ call.op = "DestroyPipeline"
    /\ \A p \in PipelineHandles : ~pipelines[p].alive
    /\ driver_library_pipelines # {}

\* a pipeline linked from a library of pre-rasterization stages and one of
\* fragment stages holds the two pipelines made for it
BothSlotsHeld ==
    \E p \in PipelineHandles :
        /\ LinkedPipeline(p)
        /\ pipelines[p].pre_raster_lib # VK_NULL_HANDLE
        /\ pipelines[p].frag_out_lib # VK_NULL_HANDLE
        /\ pipelines[p].new_lib_pipelines
                = {pipelines[p].pre_raster_lib, pipelines[p].frag_out_lib}

(* ------------------- creation calls of several threads ----------------- *)
\* two threads of the application that create pipelines and shader modules
\* at the same time
Workers == {1, 2}

\* the cache on, the selection on, or neither
ThreadSettings ==
    {st \in [shader_instrumentation : {{"bindless_descriptor"}},
             debug_printf_enabled : {FALSE},
             debug_printf_only : {FALSE},
             debug_validate_instrumented_shaders : {FALSE},
             debug_dump_instrumented_shaders : {FALSE},
             cache_instrumented_shaders : BOOLEAN,
             select_instrumented_shaders : BOOLEAN] :
        ~(st.cache_instrumented_shaders /\ st.select_instrumented_shaders)}

\* thread t is about to run a hook for shader module `module`
NewHook(hook, module) ==
    [hook |-> hook, pc |-> "lock", module |-> module, unique_shader_id |-> 0,
     cached |-> FALSE, pass |-> FALSE, instrumented_spirv |-> <<>>, raced |-> FALSE]

SetHook(t, h) ==
    /\ hooks' = [hooks EXCEPT ![t] = h]
    /\ UNCHANGED <<global_settings, guards>>

\* the threads other than t that are inside one of the calls `pcs`
OthersIn(t, pcs) == {u \in Workers \ {t} : hooks[u].pc \in pcs}

\* the hooks of the threads in `racing` have met an unsynchronised access
Raced(t, h, racing) ==
    [u \in Threads |->
        IF u = t THEN [h EXCEPT !.raced = @ \/ racing # {}]
        ELSE IF u \in racing THEN [hooks[u] EXCEPT !.raced = TRUE]
        ELSE hooks[u]]

\* the chassis intercepts a creation call of thread t; it constructs the
\* guard of WriteLock() before it calls the hook
ChassisCalls(t, hook, module) ==
    /\ phase = "live" /\ dispatch_registered
    /\ guards[t] = NoGuard
    /\ \/ hooks[t].pc = "idle"
       \/ hooks[t].pc = "return" /\ hooks[t].hook # "pre"
    /\ SetHook(t, NewHook(hook, module))
    /\ UNCHANGED <<deferred_operation_post_check, driver_shader_modules, driver_library_pipelines, cache_log,
                   driver_objects, gpuav_settings, phase, coreVars,
                   selected_instrumented_shaders, instrumented_shaders_cache_,
                   instrumented_shaders_map_, unique_shader_module_id_, shader_objects,
                   pipelines, call>>

\* the driver has created the pipeline: the chassis calls the post-call hook
ChassisCallsPost(t) ==
    /\ guards[t] = NoGuard
    /\ hooks[t].pc = "return" /\ hooks[t].hook = "pre"
    /\ SetHook(t, [hooks[t] EXCEPT !.hook = "post", !.pc = "lock"])
    /\ UNCHANGED <<deferred_operation_post_check, driver_shader_modules, driver_library_pipelines, cache_log,
                   driver_objects, gpuav_settings, phase, coreVars,
                   selected_instrumented_shaders, instrumented_shaders_cache_,
                   instrumented_shaders_map_, unique_shader_module_id_, shader_objects,
                   pipelines, call>>

\* thread t runs `hook` at `pc` with the guard the chassis constructed
Running(t, hook, pc) ==
    /\ t \in Workers
    /\ hooks[t].hook = hook /\ hooks[t].pc = pc
    /\ guards[t].kind = "write" /\ ~guards[t].blocked

\* selected_instrumented_shaders.find() of the stage loop begins
SelectedFindBegin(t) ==
    /\ Running(t, "pre", "lock")
    /\ gpuav_settings.select_instrumented_shaders
    /\ hooks' = Raced(t, [hooks[t] EXCEPT !.pc = "find"], OthersIn(t, {"insert"}))
    /\ UNCHANGED <<global_settings, guards, deferred_operation_post_check,
                   driver_shader_modules, driver_library_pipelines, cache_log, driver_objects, gpuav_settings, phase,
                   coreVars, selected_instrumented_shaders, instrumented_shaders_cache_,
                   instrumented_shaders_map_, unique_shader_module_id_, shader_objects,
                   pipelines, call>>

\* find() returns: a stage whose module is not selected is left out. After
\* an unsynchronised insert the result is any the container may give
SelectedFindEnd(t) ==
    /\ Running(t, "pre", "find")
    /\ \E found \in (IF hooks[t].raced THEN BOOLEAN
                     ELSE {hooks[t].module \in selected_instrumented_shaders}) :
        SetHook(t, [hooks[t] EXCEPT !.pc = IF found THEN "lookup" ELSE "return"])
    /\ UNCHANGED <<deferred_operation_post_check, driver_shader_modules, driver_library_pipelines, cache_log,
                   driver_objects, gpuav_settings, phase, coreVars,
                   selected_instrumented_shaders, instrumented_shaders_cache_,
                   instrumented_shaders_map_, unique_shader_module_id_, shader_objects,
                   pipelines, call>>

\* thread t is at the choice of the unique shader id of its stage
AtLookup(t) ==
    \/ Running(t, "pre", "lookup")
    \/ Running(t, "pre", "lock") /\ ~gpuav_settings.select_instrumented_shaders

\* instrumented_shaders_cache_.Get() begins
SpirvCacheGetBegin(t) ==
    /\ AtLookup(t)
    /\ gpuav_settings.cache_instrumented_shaders
    /\ hooks' = Raced(t, [hooks[t] EXCEPT !.pc = "Get",
                                          !.unique_shader_id =
                                              ShaderHash(ModuleWords(hooks[t].module))],
                      OthersIn(t, {"Add"}))
    /\ UNCHANGED <<global_settings, guards, deferred_operation_post_check,
                   driver_shader_modules, driver_library_pipelines, cache_log, driver_objects, gpuav_settings, phase,
                   coreVars, selected_instrumented_shaders, instrumented_shaders_cache_,
                   instrumented_shaders_map_, unique_shader_module_id_, shader_objects,
                   pipelines, call>>

\* Get() returns; after an unsynchronised Add it may also miss
SpirvCacheGetEnd(t) ==
    /\ Running(t, "pre", "Get")
    /\ LET spirv == SpirvCacheGet(instrumented_shaders_cache_, hooks[t].unique_shader_id)
       IN  \E r \in (IF hooks[t].raced THEN {spirv, [found |-> FALSE, spirv |-> <<>>]}
                     ELSE {spirv}) :
            SetHook(t, [hooks[t] EXCEPT !.pc = "rewrite", !.cached = r.found,
                                        !.instrumented_spirv = r.spirv])
    /\ UNCHANGED <<deferred_operation_post_check, driver_shader_modules, driver_library_pipelines, cache_log,
                   driver_objects, gpuav_settings, phase, coreVars,
                   selected_instrumented_shaders, instrumented_shaders_cache_,
                   instrumented_shaders_map_, unique_shader_module_id_, shader_objects,
                   pipelines, call>>

\* variant: the counter is read and left as it is
PostIncrement_Read(counter) == [value |-> counter, counter |-> counter]

\* unique_shader_module_id_++
PostIncrement(counter) == [value |-> counter, counter |-> (counter + 1) % UIntModulus]

TakeUniqueShaderModuleId(t) ==
    /\ AtLookup(t)
    /\ ~gpuav_settings.cache_instrumented_shaders
    /\ unique_shader_module_id_ <= MaxUniqueId
    /\ LET id == PostIncrement(unique_shader_module_id_)
       IN  /\ unique_shader_module_id_' = id.counter
           /\ SetHook(t, [hooks[t] EXCEPT !.pc = "rewrite", !.unique_shader_id = id.value])
    /\ UNCHANGED <<deferred_operation_post_check, driver_shader_modules, driver_library_pipelines, cache_log,
                   driver_objects, gpuav_settings, phase, coreVars,
                   selected_instrumented_shaders, instrumented_shaders_cache_,
                   instrumented_shaders_map_, shader_objects, pipelines, call>>

\* InstrumentShader unless the cache had the binary; what is recorded for the
\* stage in its metadata
RewriteStage(t) ==
    /\ Running(t, "pre", "rewrite")
    /\ LET h == hooks[t]
           res == InstrumentShader(ModuleWords(h.module), h.unique_shader_id, FALSE, EnvOk,
                                   gpuav_settings, instrumentation_desc_set_bind_index_)
           pass == ~h.cached /\ res.pass
       IN  SetHook(t, [h EXCEPT
                !.pass = pass,
                !.instrumented_spirv = IF h.cached THEN @ ELSE res.out,
                !.unique_shader_id = IF h.cached \/ pass THEN @ ELSE 0,
                !.pc = IF gpuav_settings.cache_instrumented_shaders /\ pass
                       THEN "add" ELSE "return"])
    /\ UNCHANGED <<deferred_operation_post_check, driver_shader_modules, driver_library_pipelines, cache_log,
                   driver_objects, gpuav_settings, phase, coreVars,
                   selected_instrumented_shaders, instrumented_shaders_cache_,
                   instrumented_shaders_map_, unique_shader_module_id_, shader_objects,
                   pipelines, call>>

\* instrumented_shaders_cache_.Add() begins
SpirvCacheAddBegin(t) ==
    /\ Running(t, "pre", "add")
    /\ hooks' = Raced(t, [hooks[t] EXCEPT !.pc = "Add"], OthersIn(t, {"Add", "Get"}))
    /\ UNCHANGED <<global_settings, guards, deferred_operation_post_check,
                   driver_shader_modules, driver_library_pipelines, cache_log, driver_objects, gpuav_settings, phase,
                   coreVars, selected_instrumented_shaders, instrumented_shaders_cache_,
                   instrumented_shaders_map_, unique_shader_module_id_, shader_objects,
                   pipelines, call>>

\* Add() returns; after an unsynchronised access the entry may be missing
SpirvCacheAddEnd(t) ==
    /\ Running(t, "pre", "Add")
    /\ LET added == SpirvCacheAdd(instrumented_shaders_cache_, hooks[t].unique_shader_id,
                                  hooks[t].instrumented_spirv)
       IN  instrumented_shaders_cache_' \in
                (IF hooks[t].raced THEN {added, instrumented_shaders_cache_} ELSE {added})
    /\ SetHook(t, [hooks[t] EXCEPT !.pc = "return"])
    /\ UNCHANGED <<deferred_operation_post_check, driver_shader_modules, driver_library_pipelines, cache_log,
                   driver_objects, gpuav_settings, phase, coreVars,
                   selected_instrumented_shaders, instrumented_shaders_map_,
                   unique_shader_module_id_, shader_objects, pipelines, call>>

\* the post-call hook of the pipeline: the record of an instrumented stage
InsertStageRecord(t) ==
    /\ Running(t, "post", "lock")
    /\ instrumented_shaders_map_' =
            IF ~IsInstrumented(hooks[t]) THEN instrumented_shaders_map_
            ELSE InsertOrAssign(instrumented_shaders_map_, hooks[t].unique_shader_id,
                                PipelinePool[1], hooks[t].module, VK_NULL_HANDLE,
                                ModuleWords(hooks[t].module))
    /\ SetHook(t, [hooks[t] EXCEPT !.pc = "return"])
    /\ UNCHANGED <<deferred_operation_post_check, driver_shader_modules, driver_library_pipelines, cache_log,
                   driver_objects, gpuav_settings, phase, coreVars,
                   selected_instrumented_shaders, instrumented_shaders_cache_,
                   unique_shader_module_id_, shader_objects, pipelines, call>>

\* PostCallRecordCreateShaderModule of a module the application picked:
\* selected_instrumented_shaders.insert() begins
SelectedInsertBegin(t) ==
    /\ Running(t, "module", "lock")
    /\ hooks' = IF gpuav_settings.select_instrumented_shaders
                THEN Raced(t, [hooks[t] EXCEPT !.pc = "insert"], OthersIn(t, {"find", "insert"}))
                ELSE [hooks EXCEPT ![t].pc = "return"]
    /\ UNCHANGED <<global_settings, guards, deferred_operation_post_check,
                   driver_shader_modules, driver_library_pipelines, cache_log, driver_objects, gpuav_settings, phase,
                   coreVars, selected_instrumented_shaders, instrumented_shaders_cache_,
                   instrumented_shaders_map_, unique_shader_module_id_, shader_objects,
                   pipelines, call>>

SelectedInsertEnd(t) ==
    /\ Running(t, "module", "insert")
    /\ LET inserted == selected_instrumented_shaders \cup {hooks[t].module}
       IN  selected_instrumented_shaders' \in
                (IF hooks[t].raced THEN {inserted, selected_instrumented_shaders}
                 ELSE {inserted})
    /\ SetHook(t, [hooks[t] EXCEPT !.pc = "return"])
    /\ UNCHANGED <<deferred_operation_post_check, driver_shader_modules, driver_library_pipelines, cache_log,
                   driver_objects, gpuav_settings, phase, coreVars,
                   instrumented_shaders_cache_, instrumented_shaders_map_,
                   unique_shader_module_id_, shader_objects, pipelines, call>>

InitThreads ==
    /\ gpuav_settings \in ThreadSettings
    /\ phase = "constructed"
    /\ aborted_ = FALSE
    /\ dispatch_registered = TRUE
    /\ instrumentation_desc_set_bind_index_ = 0
    /\ instrumentation_desc_layout_ = VK_NULL_HANDLE
    /\ dummy_desc_layout_ = VK_NULL_HANDLE
    /\ instrumentation_pipeline_layout_ = VK_NULL_HANDLE
    /\ selected_instrumented_shaders = {}
    /\ instrumented_shaders_cache_ = {}
    /\ instrumented_shaders_map_ = {}
    /\ unique_shader_module_id_ = 1
    /\ shader_objects = {}
    /\ pipelines = [p \in PipelineHandles |-> NoPipeline]
    /\ call = IdleCall
    /\ cache_log = <<>>
    /\ driver_objects = [h \in InternalHandles |-> [created |-> 0, destroyed |-> 0]]
    /\ driver_shader_modules = {}
    /\ driver_library_pipelines = {}
    /\ deferred_operation_post_check = [d \in DeferredOperations |-> NotFound]
    /\ global_settings \in [fine_grained_locking : BOOLEAN]
    /\ guards = [t \in Threads |-> NoGuard]
    /\ hooks = [t \in Threads |-> IdleHook]

NextThreads ==
    \/ PostCreateDevice(SupportedDevice)
    \/ Return
    \/ \E t \in Workers, module \in ShaderModuleHandles : ChassisCalls(t, "pre", module)
    \/ \E t \in Workers, module \in ShaderModuleHandles :
        /\ gpuav_settings.select_instrumented_shaders
        /\ ChassisCalls(t, "module", module)
    \/ \E t \in Workers : ChassisCallsPost(t)
    \/ \E t \in Workers : hooks[t].pc = "lock" /\ WriteLockCall(t)
    \/ \E t \in Workers : LockGranted(t)
    \/ \E t \in Workers : hooks[t].pc = "return" /\ GuardDestroyed(t)
    \/ \E t \in Workers : SelectedFindBegin(t)
    \/ \E t \in Workers : SelectedFindEnd(t)
    \/ \E t \in Workers : SpirvCacheGetBegin(t)
    \/ \E t \in Workers : SpirvCacheGetEnd(t)
    \/ \E t \in Workers : TakeUniqueShaderModuleId(t)
    \/ \E t \in Workers : RewriteStage(t)
    \/ \E t \in Workers : SpirvCacheAddBegin(t)
    \/ \E t \in Workers : SpirvCacheAddEnd(t)
    \/ \E t \in Workers : InsertStageRecord(t)
    \/ \E t \in Workers : SelectedInsertBegin(t)
    \/ \E t \in Workers : SelectedInsertEnd(t)

SpecThreads == InitThreads /\ [][NextThreads]_vars

\* the threads that hold a unique shader id of the counter which is not yet
\* in the registry
Holding(t) ==
    /\ hooks[t].hook \in {"pre", "post"}
    /\ hooks[t].pc \notin {"idle", "lock", "find", "lookup"} \/ hooks[t].hook = "post"
    /\ ~(hooks[t].hook = "post" /\ hooks[t].pc = "return")
    /\ hooks[t].unique_shader_id # 0

C32_CacheAndSelectionSerialized ==
    \A t \in Workers : \A u \in Workers \ {t} :
        /\ ~(hooks[t].pc = "Add" /\ hooks[u].pc \in {"Add", "Get"})
        /\ ~(hooks[t].pc = "insert" /\ hooks[u].pc = "find")

\* with fine_grained_locking off the guard of the chassis keeps the calls on
\* the cache and on the selection apart
SerializedWhenLocking ==
    ~global_settings.fine_grained_locking
        => /\ C32_CacheAndSelectionSerialized
           /\ \A t \in Workers : hooks[t].hook # "none" => ~hooks[t].raced

\* with fine_grained_locking on an Add runs while another thread is in Get
AddDuringGet ==
    /\ global_settings.fine_grained_locking
    /\ \E t \in Workers : \E u \in Workers \ {t} :
        /\ hooks[t].pc = "Add" /\ hooks[u].pc = "Get"
        /\ ~guards[t].owns /\ ~guards[u].owns

\* with fine_grained_locking on two threads are in Add
AddDuringAdd ==
    /\ global_settings.fine_grained_locking
    /\ hooks[1].pc = "Add" /\ hooks[2].pc = "Add"

\* with fine_grained_locking on an insert runs while another thread is in find
InsertDuringFind ==
    /\ global_settings.fine_grained_locking
    /\ \E t \in Workers : \E u \in Workers \ {t} :
        hooks[t].pc = "insert" /\ hooks[u].pc = "find"

(* ------- the deferred post-call hook and a completion on another thread ------- *)
\* the thread on which the completion of a deferred operation arrives
CompletionThread == 2

\* the continuation the hook appends for call c
Continuation(c) ==
    [fn |-> "GpuShaderInstrumentor", pipeline_states |-> c.pipeline_states,
     shader_instrumentations_metadata |-> c.shader_instrumentations_metadata]

\* BaseClass::PostCallRecordCreateRayTracingPipelinesKHR of a call the driver
\* deferred: the state tracker puts its post check under the deferred operation
StateTrackerSeeds(deferredOperation) ==
    /\ phase = "live" /\ dispatch_registered
    /\ call.op = "RayTracingKHR" /\ call.stage = "pre"
    /\ ~deferred_operation_post_check[deferredOperation].first
    /\ deferred_operation_post_check' =
            [deferred_operation_post_check EXCEPT ![deferredOperation] =
                [first |-> TRUE, second |-> <<StateTrackerPostCheck(call)>>]]
    /\ call' = [call EXCEPT !.stage = "seeded"]
                    @@ [deferredOperation |-> deferredOperation,
                        result |-> "VK_OPERATION_DEFERRED_KHR",
                        registry |-> instrumented_shaders_map_]
    /\ UNCHANGED <<lockVars, driver_shader_modules, driver_library_pipelines, cache_log, driver_objects,
                   gpuav_settings, phase, coreVars, selected_instrumented_shaders,
                   instrumented_shaders_cache_, instrumented_shaders_map_,
                   unique_shader_module_id_, shader_objects, pipelines>>

\* deferred_operation_post_check.pop(deferredOperation): the entry is taken out
\* of the map
PopPostChecks ==
    /\ call.op = "RayTracingKHR" /\ call.stage = "seeded"
    /\ IsOperationDeferred(call.deferredOperation, call.result)
    /\ deferred_operation_post_check' =
            [deferred_operation_post_check EXCEPT ![call.deferredOperation] = NotFound]
    /\ call' = [call EXCEPT !.stage = "popped"]
                    @@ [found |-> deferred_operation_post_check[call.deferredOperation]]
    /\ UNCHANGED <<lockVars, driver_shader_modules, driver_library_pipelines, cache_log, driver_objects,
                   gpuav_settings, phase, coreVars, selected_instrumented_shaders,
                   instrumented_shaders_cache_, instrumented_shaders_map_,
                   unique_shader_module_id_, shader_objects, pipelines>>

\* the continuation is appended to the list found and the list is put back;
\* the hook returns at once when none was found
InsertPostChecks ==
    /\ call.op = "RayTracingKHR" /\ call.stage = "popped"
    /\ deferred_operation_post_check' =
            IF call.found.first
            THEN [deferred_operation_post_check EXCEPT ![call.deferredOperation] =
                    JoinPostChecks(call.found, Continuation(call))]
            ELSE deferred_operation_post_check
    /\ call' = [call EXCEPT !.stage = "post"]
    /\ UNCHANGED <<lockVars, driver_shader_modules, driver_library_pipelines, cache_log, driver_objects,
                   gpuav_settings, phase, coreVars, selected_instrumented_shaders,
                   instrumented_shaders_cache_, instrumented_shaders_map_,
                   unique_shader_module_id_, shader_objects, pipelines>>

\* the deferred operation completes on another thread while or after the
\* creating thread runs its hook: the list under the operation is taken and
\* run; what the thread found is kept in its hook
CompletedOnOtherThread(deferredOperation, vk_pipelines) ==
    /\ hooks[CompletionThread] = IdleHook
    /\ \/ deferred_operation_post_check[deferredOperation].first
       \/ /\ call.op = "RayTracingKHR" /\ call.stage \in {"seeded", "popped", "post"}
          /\ call.deferredOperation = deferredOperation
    /\ LET found == deferred_operation_post_check[deferredOperation]
           done == RunPostChecks(1, found.second, vk_pipelines, pipelines,
                                 instrumented_shaders_map_)
       IN  /\ pipelines' = done.pipelines
           /\ instrumented_shaders_map_' = done.map
           /\ hooks' = [hooks EXCEPT ![CompletionThread] =
                            [hook |-> "DeferredOperationCompleted", pc |-> "return",
                             deferredOperation |-> deferredOperation, found |-> found,
                             during |-> call.stage]]
    /\ deferred_operation_post_check' =
            [deferred_operation_post_check EXCEPT ![deferredOperation] = NotFound]
    /\ UNCHANGED <<global_settings, guards, driver_shader_modules, driver_library_pipelines, cache_log,
                   driver_objects, gpuav_settings, phase, coreVars,
                   selected_instrumented_shaders, instrumented_shaders_cache_,
                   unique_shader_module_id_, shader_objects, call>>

\* the completion has been handled and the creating call has returned
CompletionReturns ==
    /\ hooks[CompletionThread].hook = "DeferredOperationCompleted"
    /\ call.stage = "idle"
    /\ hooks' = [hooks EXCEPT ![CompletionThread] = IdleHook]
    /\ UNCHANGED <<global_settings, guards, deferred_operation_post_check,
                   driver_shader_modules, driver_library_pipelines, cache_log, driver_objects, gpuav_settings, phase,
                   coreVars, selected_instrumented_shaders, instrumented_shaders_cache_,
                   instrumented_shaders_map_, unique_shader_module_id_, shader_objects,
                   pipelines, call>>

InitPop == InitWith(DriverSettings)

NextPop ==
    \/ PostCreateDevice(SupportedDevice)
    \/ \E b \in DeferredBatches : PreCallRecordCreateRayTracingPipelinesKHR(b, EnvOk)
    \/ \E deferredOperation \in DeferredOperations : StateTrackerSeeds(deferredOperation)
    \/ PopPostChecks
    \/ InsertPostChecks
    \/ \E deferredOperation \in DeferredOperations :
        \E vk_pipelines \in
            {FreshHandles(PipelinePool, AlivePipelines,
                IF deferred_operation_post_check[deferredOperation].first
                THEN Len(deferred_operation_post_check[deferredOperation].second[1].pipeline_states)
                ELSE 0)} :
            CompletedOnOtherThread(deferredOperation, vk_pipelines)
    \/ CompletionReturns
    \/ \E p \in PipelineHandles : PreCallRecordDestroyPipeline(p)
    \/ Return

SpecPop == InitPop /\ [][NextPop]_vars

\* a completion for the deferred operation of the call in flight has arrived
CompletionArrived ==
    /\ hooks[CompletionThread].hook = "DeferredOperationCompleted"
    /\ "deferredOperation" \in DOMAIN call
    /\ hooks[CompletionThread].deferredOperation = call.deferredOperation

\* C33: after the deferred post-call hook has returned, the list of the
\* deferred operation is the list found, in its order, with one continuation
\* appended last; and a completion that arrives on another thread once the
\* state tracker has put its post check under the operation finds the list
\* there, with that post check in it
C33_ListKeptAcrossPopAndInsert ==
    /\ (call.op = "RayTracingKHR" /\ call.stage = "post" /\ "found" \in DOMAIN call
            /\ call.found.first /\ ~CompletionArrived)
        => deferred_operation_post_check[call.deferredOperation]
                = [first |-> TRUE,
                   second |-> Append(call.found.second, Continuation(call))]
    /\ (CompletionArrived /\ hooks[CompletionThread].during \in {"seeded", "popped", "post"})
        => /\ hooks[CompletionThread].found.first
           /\ hooks[CompletionThread].found.second[1].fn = "ValidationStateTracker"

\* without a completion during the hook: the list is the state tracker's post
\* check followed by the continuation, and the registry is as before the call
AppendedLastWhenUndisturbed ==
    (call.op = "RayTracingKHR" /\ call.stage = "post" /\ "found" \in DOMAIN call
        /\ hooks[CompletionThread] = IdleHook)
        => /\ deferred_operation_post_check[call.deferredOperation].second
                = <<StateTrackerPostCheck(call), Continuation(call)>>
           /\ instrumented_shaders_map_ = call.registry

\* the completion arrived between pop and insert: it found no list and ran
\* nothing; the hook then put the list back, where nothing will run it
CompletionBetweenPopAndInsert ==
    /\ call.op = "RayTracingKHR" /\ call.stage = "post"
    /\ CompletionArrived
    /\ hooks[CompletionThread].during = "popped"
    /\ ~hooks[CompletionThread].found.first
    /\ Len(deferred_operation_post_check[call.deferredOperation].second) = 2
    /\ ~pipelines[PipelinePool[1]].alive

\* the completion arrived before the pop: the hook found no list and appended
\* no continuation
CompletionBeforePop ==
    /\ call.op = "RayTracingKHR" /\ call.stage = "post"
    /\ ~call.found.first
    /\ CompletionArrived /\ hooks[CompletionThread].during = "seeded"
    /\ deferred_operation_post_check[call.deferredOperation] = NotFound

(* ------------- stages of one kind, stages in any order ----------------- *)
\* the bindless pass, the cache on or off
StageSettings ==
    {st \in InstrumentSettings :
        /\ st.shader_instrumentation = {"bindless_descriptor"}
        /\ ~st.debug_printf_enabled
        /\ ~st.debug_validate_instrumented_shaders
        /\ ~st.debug_dump_instrumented_shaders}

\* the stages of a ray-tracing pipeline: stages of one kind inlined or by
\* handle, a module no pass changes, each order of two kinds
StageOrders ==
    {<<Inlined("closest_hit", None), Inlined("closest_hit", None)>>,
     <<ByHandle("closest_hit", "M1"), Inlined("closest_hit", None)>>,
     <<ByHandle("closest_hit", "M1"), ByHandle("closest_hit", "M2")>>,
     <<ByHandle("raygen", "M1"), Inlined("closest_hit", None)>>,
     <<Inlined("closest_hit", None), ByHandle("raygen", "M2")>>}

\* a pipeline layout without and with a bindless set layout
StageLayouts == {<<"A">>, <<"C">>}

StageBatches ==
    {<<PipelineState("RayTracingKHR", FALSE, l, {}, stages)>> :
        l \in StageLayouts, stages \in StageOrders}

StageEnvs == {EnvOk, [EnvOk EXCEPT !.create_shader_module_ok = FALSE]}

InitStages == InitWith(StageSettings)

NextStages ==
    \/ PostCreateDevice(SupportedDevice)
    \/ \E b \in StageBatches, env \in StageEnvs :
            PreCallRecordCreateRayTracingPipelinesKHR(b, env)
    \/ /\ call.op = "RayTracingKHR"
       /\ PostCallRecordCreateRayTracingPipelinesKHR(VK_NULL_HANDLE, "VK_SUCCESS", FALSE,
            FreshHandles(PipelinePool, AlivePipelines, Len(call.pCreateInfos)))
    \/ \E p \in PipelineHandles : PreCallRecordDestroyPipeline(p)
    \/ Return

SpecStages == InitStages /\ [][NextStages]_vars

\* the pre-call hook of a pipeline creation has run over stages it instruments
StagesCall(c) ==
    /\ c.op \in PipelineKinds /\ c.stage = "pre"
    /\ c.shader_instrumentations_metadata # <<>>

\* how often a stage kind occurs in a stage array
Occurrences(pStages, stage) == Cardinality({s \in 1..Len(pStages) : pStages[s].stage = stage})

\* the copy of a pipeline's stage array against the application's: the same
\* length, every kind as often, the stages not instrumented as given, the
\* inlined stages instrumented carry code that embeds their own id
OnlyOwnEntriesChanged(given, copy, metadata) ==
    /\ Len(copy) = Len(given)
    /\ \A s \in 1..Len(given) :
            Occurrences(copy, given[s].stage) = Occurrences(given, given[s].stage)
    /\ \A s \in 1..Len(given) :
            IF ~IsInstrumented(metadata[s])
            THEN copy[s] = given[s]
            ELSE metadata[s].passed_in_shader_stage_ci
                    => /\ copy[s].sm_ci.code # given[s].sm_ci.code
                       /\ copy[s].sm_ci.code[Len(given[s].sm_ci.code) + 1]
                                = metadata[s].unique_shader_id

\* C36: the substitution for a stage changes that stage's entry of the copy
\* only: the copy has as many stages as the application's array, each kind
\* as often, a stage that was not instrumented is as given, and the code of
\* an inlined stage is written to the nested descriptor of that stage, in
\* any order of the stages and with several stages of one kind
C36_OnlyOwnStageEntryChanged ==
    StagesCall(call)
        => \A i \in 1..Len(call.pCreateInfos) :
                OnlyOwnEntriesChanged(call.pCreateInfos[i].pStages,
                                      call.modified_create_infos[i].pStages,
                                      call.shader_instrumentations_metadata[i])

\* no two stages of the array are of one kind
DistinctKinds(pStages) ==
    \A s, t \in 1..Len(pStages) : pStages[s].stage = pStages[t].stage => s = t

\* with stages of distinct kinds the copy differs in the entries of the
\* instrumented stages only
OwnEntryChangedForDistinctKinds ==
    StagesCall(call)
        => \A i \in 1..Len(call.pCreateInfos) :
                DistinctKinds(call.pCreateInfos[i].pStages)
                    => OnlyOwnEntriesChanged(call.pCreateInfos[i].pStages,
                                             call.modified_create_infos[i].pStages,
                                             call.shader_instrumentations_metadata[i])

\* two inlined stages of one kind: the code of the second was written to the
\* nested descriptor of the first, the second has the code it came with
SecondWrittenToFirst ==
    /\ StagesCall(call)
    /\ ~gpuav_settings.cache_instrumented_shaders
    /\ LET given == call.pCreateInfos[1].pStages
           copy == call.modified_create_infos[1].pStages
           metadata == call.shader_instrumentations_metadata[1]
       IN  /\ given = <<Inlined("closest_hit", None), Inlined("closest_hit", None)>>
           /\ IsInstrumented(metadata[1]) /\ IsInstrumented(metadata[2])
           /\ copy[2] = given[2]
           /\ copy[1].sm_ci.code[Len(W2) + 1] = metadata[2].unique_shader_id

\* a stage inlined after a stage by handle, in the other order of kinds: the
\* inlined stage carries its instrumented code, the stage no pass changes is
\* as given
InlinedFirstOfTwoKinds ==
    /\ StagesCall(call)
    /\ LET given == call.pCreateInfos[1].pStages
           copy == call.modified_create_infos[1].pStages
           metadata == call.shader_instrumentations_metadata[1]
       IN  /\ given = <<Inlined("closest_hit", None), ByHandle("raygen", "M2")>>
           /\ IsInstrumented(metadata[1]) /\ ~IsInstrumented(metadata[2])
           /\ copy[1].sm_ci.code # W2
           /\ copy[2] = given[2]

\* the entry of stage s in the copy is not the application's: a module or
\* code was put in its place
Placed(c, i, s) == c.modified_create_infos[i].pStages[s] # c.pCreateInfos[i].pStages[s]

\* the pre-call or the post-call hook of a pipeline creation has run
StagesDone(c) ==
    /\ c.op \in PipelineKinds
    /\ c.shader_instrumentations_metadata # <<>>

\* the ids of the stages of the call whose entry of the copy was replaced
PlacedIds(c) ==
    UNION {{c.shader_instrumentations_metadata[i][s].unique_shader_id :
                s \in {t \in 1..Len(c.pCreateInfos[i].pStages) : Placed(c, i, t)}} :
           i \in 1..Len(c.pCreateInfos)}

\* C37: a unique id is recorded for a stage, and a registry record inserted
\* for it, only if the instrumented binary was put in the stage's place:
\* when the replacement module is not created, or the stage has neither a
\* handle nor a nested descriptor, the stage keeps its binary, no id is
\* recorded and no record is inserted
C37_RecordOnlyIfPlaced ==
    StagesDone(call)
        => /\ \A i \in 1..Len(call.pCreateInfos) :
                \A s \in 1..Len(call.pCreateInfos[i].pStages) :
                    IsInstrumented(call.shader_instrumentations_metadata[i][s])
                        => Placed(call, i, s)
           /\ call.stage = "post"
                => \A r \in instrumented_shaders_map_ \ call.registry : r.id \in PlacedIds(call)

\* the replacement module of a stage was not created: the stage is as given
\* and its metadata holds the id
IdKeptAfterModuleFailure ==
    /\ StagesDone(call) /\ call.stage = "pre"
    /\ call.module_errors > 0
    /\ \E s \in 1..Len(call.pCreateInfos[1].pStages) :
        /\ call.pCreateInfos[1].pStages[s].module # VK_NULL_HANDLE
        /\ ~Placed(call, 1, s)
        /\ IsInstrumented(call.shader_instrumentations_metadata[1][s])

\* a stage without handle for which no nested descriptor was found: the stage
\* is as given and the post-call hook inserted a record under its id
RecordWithoutBinary ==
    /\ StagesDone(call) /\ call.stage = "post"
    /\ call.pCreateInfos[1].pStages
            = <<ByHandle("closest_hit", "M1"), Inlined("closest_hit", None)>>
    /\ ~Placed(call, 1, 2)
    /\ \E r \in instrumented_shaders_map_ \ call.registry :
            /\ r.id = call.shader_instrumentations_metadata[1][2].unique_shader_id
            /\ r.id \notin PlacedIds(call)

\* what InstrumentShader makes of the words of stage s of pipeline i of the
\* call under the id of the stage and the layout of that pipeline
FreshRewrite(c, i, s) ==
    InstrumentShader(c.pipeline_states[i].stage_states[s].module_state.words,
                     c.shader_instrumentations_metadata[i][s].unique_shader_id,
                     HasBindlessDescriptorsPipeline(c.pipeline_states[i]),
                     EnvOk, gpuav_settings, instrumentation_desc_set_bind_index_).out

\* the binary the call substituted for stage s of pipeline i: the code of the
\* module created for it, or the code in its nested descriptor
Substituted(c, i, s) ==
    LET entry == c.modified_create_infos[i].pStages[s]
    IN  IF entry.module # VK_NULL_HANDLE
        THEN (CHOOSE m \in Range(c.created_shader_modules) : m.handle = entry.module).pCode
        ELSE entry.sm_ci.code

\* the stages of the call, of pipelines without two stages of one kind, for
\* which a binary was substituted
SubstitutedStages(c) ==
    UNION {{<<i, s>> : s \in {t \in 1..Len(c.pCreateInfos[i].pStages) :
                                /\ IsInstrumented(c.shader_instrumentations_metadata[i][t])
                                /\ Placed(c, i, t)}} :
           i \in {j \in 1..Len(c.pCreateInfos) : DistinctKinds(c.pCreateInfos[j].pStages)}}

\* C38: the binary substituted for a stage, on a hit of the cache too, is
\* what a rewrite of the stage's words under the parameters of the call in
\* flight gives: of two calls with the same words and different
\* has_bindless_descriptors each gets a binary made with its own value
C38_CacheHitEqualsFreshRewrite ==
    StagesDone(call)
        => \A x \in SubstitutedStages(call) :
                Substituted(call, x[1], x[2]) = FreshRewrite(call, x[1], x[2])

\* without the cache every substituted binary is the rewrite of the call
RewriteOfTheCallWithoutCache ==
    (StagesDone(call) /\ ~gpuav_settings.cache_instrumented_shaders)
        => \A x \in SubstitutedStages(call) :
                Substituted(call, x[1], x[2]) = FreshRewrite(call, x[1], x[2])

\* a call whose layout has a bindless set got from the cache the binary an
\* earlier call made without bindless descriptors
StaleBindlessModeFromCache ==
    /\ StagesDone(call) /\ call.stage = "pre"
    /\ gpuav_settings.cache_instrumented_shaders
    /\ call.instrument_calls = <<>>
    /\ HasBindlessDescriptorsPipeline(call.pipeline_states[1])
    /\ \E x \in SubstitutedStages(call) :
        LET code == Substituted(call, x[1], x[2])
        IN  /\ code # FreshRewrite(call, x[1], x[2])
            /\ code[Len(code) - 1] = 0

(* ------------- batches with elements the driver did not create --------- *)
NullPipeline(kind, stage) == PipelineState(kind, FALSE, <<>>, {}, <<ByHandle(stage, "M1")>>)

\* two pipelines of one stage each
NullBatch(kind) ==
    CASE kind = "Graphics" -> <<NullPipeline(kind, "vertex"), NullPipeline(kind, "vertex")>>
      [] kind = "Compute" -> <<NullPipeline(kind, "compute"), NullPipeline(kind, "compute")>>
      [] OTHER -> <<NullPipeline(kind, "raygen"), NullPipeline(kind, "raygen")>>

InitNull == InitWith(DriverSettings)

NextNull ==
    \/ PostCreateDevice(SupportedDevice)
    \/ PreCallRecordCreateGraphicsPipelines(NullBatch("Graphics"), EnvOk)
    \/ PreCallRecordCreateComputePipelines(NullBatch("Compute"), EnvOk)
    \/ PreCallRecordCreateRayTracingPipelinesNV(NullBatch("RayTracingNV"), EnvOk)
    \/ PreCallRecordCreateRayTracingPipelinesKHR(NullBatch("RayTracingKHR"), EnvOk)
    \/ /\ call.op = "Graphics"
       /\ \E pPipelines \in DriverResults(PipelinePool, AlivePipelines,
                                           Len(call.pCreateInfos)) :
            PostCallRecordCreateGraphicsPipelines(pPipelines)
    \/ /\ call.op = "Compute"
       /\ \E pPipelines \in DriverResults(PipelinePool, AlivePipelines,
                                           Len(call.pCreateInfos)) :
            PostCallRecordCreateComputePipelines(pPipelines)
    \/ /\ call.op = "RayTracingNV"
       /\ \E pPipelines \in DriverResults(PipelinePool, AlivePipelines,
                                           Len(call.pCreateInfos)) :
            PostCallRecordCreateRayTracingPipelinesNV(pPipelines)
    \/ /\ call.op = "RayTracingKHR"
       /\ \E pPipelines \in DriverResults(PipelinePool, AlivePipelines,
                                           Len(call.pCreateInfos)) :
            PostCallRecordCreateRayTracingPipelinesKHR(VK_NULL_HANDLE, "VK_SUCCESS", FALSE,
                                                       pPipelines)
    \/ /\ call.op = "RayTracingKHR"
       /\ \E deferredOperation \in DeferredOperations :
            PostCallRecordCreateRayTracingPipelinesKHR(
                deferredOperation, "VK_OPERATION_DEFERRED_KHR", TRUE,
                FreshHandles(PipelinePool, AlivePipelines, Len(call.pCreateInfos)))
    \/ \E deferredOperation \in DeferredOperations :
        /\ deferred_operation_post_check[deferredOperation].first
        /\ \E vk_pipelines \in DriverResults(PipelinePool, AlivePipelines,
                Len(deferred_operation_post_check[deferredOperation].second[1].pipeline_states)) :
            DeferredOperationCompleted(deferredOperation, vk_pipelines)
    \/ \E p \in PipelineHandles : PreCallRecordDestroyPipeline(p)
    \/ Return

SpecNull == InitNull /\ [][NextNull]_vars

\* the handles the post-call hook of call c went over, and the metadata of
\* their elements; none while the hook has not run
HandledPipelines(c) ==
    IF c.op \in PipelineKinds /\ c.stage \in {"post", "stopped"} /\ c.pPipelines # <<>>
    THEN [handles |-> c.pPipelines, metadata |-> c.shader_instrumentations_metadata]
    ELSE IF c.op = "DeferredOperationCompleted" /\ Len(c.post_checks) = 2
    THEN [handles |-> c.vk_pipelines,
          metadata |-> c.post_checks[2].shader_instrumentations_metadata]
    ELSE [handles |-> <<>>, metadata |-> <<>>]

\* every element with a handle has the records of its instrumented stages
CreatedElementsRecorded(c) ==
    LET h == HandledPipelines(c)
    IN  \A i \in 1..Len(h.handles) :
            h.handles[i] # VK_NULL_HANDLE
                => \A id \in InstrumentedIds(h.metadata[i]) :
                        \E r \in instrumented_shaders_map_ :
                            r.id = id /\ r.pipeline = h.handles[i]

\* C39: in the post-call hook of every pipeline creation entry point an
\* element of the batch without pipeline state is skipped and not
\* dereferenced, and the other elements of the batch get their records
C39_MissingPipelineStateSkipped ==
    /\ call.stage # "stopped"
    /\ IsSpirvModified(gpuav_settings) => CreatedElementsRecorded(call)

\* the hooks with ASSERT_AND_CONTINUE: graphics, compute, ray tracing NV,
\* deferred ray tracing KHR
SkippedWhereChecked ==
    (IsSpirvModified(gpuav_settings) /\ call.stage # "stopped")
        => CreatedElementsRecorded(call)

\* the synchronous ray-tracing KHR hook went into an element the driver did
\* not create: the process stopped and the element after it has no record
StoppedBeforeSecondElement ==
    /\ call.op = "RayTracingKHR" /\ call.stage = "stopped"
    /\ call.pPipelines[1] = VK_NULL_HANDLE /\ call.pPipelines[2] # VK_NULL_HANDLE
    /\ InstrumentedIds(call.shader_instrumentations_metadata[2]) # {}
    /\ instrumented_shaders_map_ = call.registry

\* a compute batch whose first element the driver did not create: the second
\* element has its record
SecondElementRecorded ==
    /\ call.op = "Compute" /\ call.stage = "post"
    /\ call.pPipelines[1] = VK_NULL_HANDLE /\ call.pPipelines[2] # VK_NULL_HANDLE
    /\ \E r \in instrumented_shaders_map_ \ call.registry : r.pipeline = call.pPipelines[2]

(* ------------------------- vkCmdWaitEvents ----------------------------- *)
HOST_BIT == "VK_PIPELINE_STAGE_2_HOST_BIT"

\* the source stage masks of the commands validated
StageMasks == SUBSET {HOST_BIT, "VK_PIPELINE_STAGE_2_COMPUTE_SHADER_BIT"}

\* ValidateCmdWaitEvents: with the host stage in the mask InternalError is
\* called with the message about the deadlock; the result is false
ValidateCmdWaitEvents(src_stage_mask) ==
    /\ Intercepting
    /\ IF HOST_BIT \in src_stage_mask THEN InternalError
       ELSE UNCHANGED <<aborted_, dispatch_registered>>
    /\ call' = [op |-> "ValidateCmdWaitEvents", stage |-> "post",
                src_stage_mask |-> src_stage_mask,
                skip |-> FALSE,
                errors |-> IF HOST_BIT \in src_stage_mask THEN 1 ELSE 0,
                warnings |-> 0,
                aborted_ |-> aborted_, dispatch_registered |-> dispatch_registered]
    /\ UNCHANGED <<lockVars, deferred_operation_post_check, driver_shader_modules,
                   driver_library_pipelines, cache_log, driver_objects, gpuav_settings, phase,
                   instrumentation_desc_set_bind_index_, instrumentation_desc_layout_,
                   dummy_desc_layout_, instrumentation_pipeline_layout_,
                   selected_instrumented_shaders, instrumented_shaders_cache_,
                   instrumented_shaders_map_, unique_shader_module_id_, shader_objects,
                   pipelines>>

InitWait == InitWith(InstrumentSettings)

NextWait ==
    \/ PostCreateDevice(SupportedDevice)
    \/ \E src_stage_mask \in StageMasks : ValidateCmdWaitEvents(src_stage_mask)
    \/ \E ci \in PipelineLayoutCreateInfos : PreCallRecordCreatePipelineLayout(ci)
    \/ \E ok \in BOOLEAN : PostCallRecordCreatePipelineLayout(ok)
    \/ Return

SpecWait == InitWait /\ [][NextWait]_vars

\* the command validated has the host stage in its source stage mask
HostStageWaited(c) == c.op = "ValidateCmdWaitEvents" /\ HOST_BIT \in c.src_stage_mask

\* C40: validating a wait on events with the host stage in the source stage
\* mask gives a warning only: the result is false and the core is as it was,
\* neither aborted nor without its dispatch registration
C40_HostStageOnlyWarns ==
    HostStageWaited(call)
        => /\ ~call.skip
           /\ call.errors = 0
           /\ aborted_ = call.aborted_
           /\ dispatch_registered = call.dispatch_registered

\* the result is false whatever the mask, and without the host stage the core
\* is as it was
NeverSkipsTheCall ==
    call.op = "ValidateCmdWaitEvents"
        => /\ ~call.skip
           /\ HOST_BIT \notin call.src_stage_mask
                => /\ aborted_ = call.aborted_
                   /\ dispatch_registered = call.dispatch_registered
                   /\ call.errors = 0

\* the wait with the host stage put the core in the aborted state and
\* released the dispatch registration it had
HostStageAborted ==
    /\ HostStageWaited(call)
    /\ ~call.aborted_ /\ call.dispatch_registered
    /\ aborted_ /\ ~dispatch_registered
    /\ ~call.skip
====
